---- MODULE Spec2Model ----
(***************************************************************************)
(* Model of the moth agent loop (src/src/core/agent-loop.ts): the          *)
(* conversation state machine, its approval gate, the per-tool timeout     *)
(* race and the external entry points processMessage, cancel and           *)
(* clearHistory.  One action is one run of the code from a resumption to   *)
(* the next suspension on something outside the loop: the provider stream, *)
(* the approval promise or the race of tool.execute against its timeout.   *)
(* An await of the loop's own callModel or executeTool that has already    *)
(* returned hands over in a microtask and belongs to the same action.      *)
(***************************************************************************)
EXTENDS Integers, Sequences, FiniteSets, TLC

(* ----------------------------- bounds ---------------------------------- *)

\* number of accepted processMessage invocations that are followed
MaxInv == 2

\* config.maxTurns of the modelled loop (default 25 in DEFAULT_CONFIG)
maxTurns == 2

\* largest number of tool calls in one provider response
MaxTools == 2

\* number of tool calls the provider requests over the whole run
MaxCalls == 2

\* config.contextWindowTokens of the modelled loop (default 180000)
contextWindowTokens == 24

(* ------------------------- tools and inputs ---------------------------- *)

NoId == <<0, 0, 0>>

\* the tool registry handed to the constructor: name, schema, confirmation
readFileTool ==
  [name |-> "read_file",
   properties |-> [path |-> "string", offset |-> "number", limit |-> "number"],
   required |-> {"path"},
   requiresConfirmation |-> FALSE]

writeFileTool ==
  [name |-> "write_file",
   properties |-> [path |-> "string", content |-> "string"],
   required |-> {"path", "content"},
   requiresConfirmation |-> TRUE]

tools == {readFileTool, writeFileTool}

\* this.toolMap.get(name): the registered tool, or the empty set when unknown
toolMap(name) == {t \in tools : t.name = name}

\* tool inputs: a function from the fields present to the typeof of the value
InputPathOnly == [f \in {"path"} |-> "string"]
InputPathContent == [f \in {"path", "content"} |-> "string"]
InputPathNumber == [f \in {"path"} |-> "number"]

\* validateToolInput without its loop over the types of the fields
validationErrors_skipsTypes(tool, input) ==
  [missing |-> {f \in tool.required :
                  f \notin DOMAIN input \/ input[f] \in {"undefined", "null"}},
   mistyped |-> {}]

\* validateToolInput: the set of field names the validator reports
validationErrors(tool, input) ==
  LET missing == {f \in tool.required :
                    \/ f \notin DOMAIN input
                    \/ input[f] = "undefined"
                    \/ input[f] = "null"}
      mistyped == {key \in DOMAIN input :
                    /\ key \in DOMAIN tool.properties
                    /\ input[key] \notin {"undefined", "null"}
                    /\ tool.properties[key] \in {"string", "number", "boolean"}
                    /\ input[key] # tool.properties[key]}
  IN  [missing |-> missing, mistyped |-> mistyped]

validateToolInput(tool, input) ==
  LET e == validationErrors(tool, input)
  IN  e.missing = {} /\ e.mistyped = {}

\* the tool calls a provider response may hold
ToolCallKinds ==
  { [name |-> "nope", input |-> InputPathContent],
    [name |-> "read_file", input |-> InputPathOnly],
    [name |-> "write_file", input |-> InputPathContent],
    [name |-> "write_file", input |-> InputPathNumber] }

(* ------------------------ messages and history ------------------------- *)

\* representative serialized lengths (characters) of content blocks
textBlockChars == 40
toolUseBlockChars == 60
toolResultBlockChars == 80

\* lengths (characters) of the user messages the caller submits
UserChars == {48}

blockChars(b) ==
  IF b.type = "text" THEN textBlockChars
  ELSE IF b.type = "tool_use" THEN toolUseBlockChars
  ELSE toolResultBlockChars

RECURSIVE sumBlockChars(_)
sumBlockChars(blocks) ==
  IF blocks = <<>> THEN 0
  ELSE blockChars(Head(blocks)) + sumBlockChars(Tail(blocks))

\* JSON.stringify(content).length for an array of blocks: brackets, commas
serializedLength(blocks) ==
  IF blocks = <<>> THEN 2
  ELSE 2 + sumBlockChars(blocks) + (Len(blocks) - 1)

\* a content block as the history keeps it: the model does not follow the
\* name, input and result text once they are in the history
stored(b) ==
  IF b.type = "tool_use" THEN [type |-> "tool_use", id |-> b.id]
  ELSE IF b.type = "tool_result"
  THEN [type |-> "tool_result", toolCallId |-> b.toolCallId, isError |-> b.isError]
  ELSE b

RECURSIVE storedBlocks(_)
storedBlocks(blocks) ==
  IF blocks = <<>> THEN <<>>
  ELSE <<stored(Head(blocks))>> \o storedBlocks(Tail(blocks))

userMessage(chars) ==
  [role |-> "user", plain |-> TRUE, chars |-> chars, blocks |-> <<>>]

blockMessage(role, blocks) ==
  [role |-> role, plain |-> FALSE, chars |-> serializedLength(blocks),
   blocks |-> storedBlocks(blocks)]

\* estimateTokens: Math.ceil(length / 4)
estimateTokens(msg) == (msg.chars + 3) \div 4

RECURSIVE totalTokens(_)
totalTokens(h) ==
  IF h = <<>> THEN 0 ELSE estimateTokens(Head(h)) + totalTokens(Tail(h))

\* the while loop of trimContextIfNeeded: splice(1, 1) until under 80%
RECURSIVE trimLoop(_, _, _)

\* the loop removing the newest message each time
trimLoop_dropsNewest(h, total, removed) ==
  IF Len(h) > 2 /\ total * 10 > contextWindowTokens * 8
  THEN trimLoop(SubSeq(h, 1, Len(h) - 1),
                total - estimateTokens(h[Len(h)]), removed + 1)
  ELSE [history |-> h, removed |-> removed]

\* the loop leaving after one removal
trimLoop_removesOne(h, total, removed) ==
  IF removed = 0 /\ Len(h) > 2 /\ total * 10 > contextWindowTokens * 8
  THEN trimLoop(<<h[1]>> \o SubSeq(h, 3, Len(h)),
                total - estimateTokens(h[2]), removed + 1)
  ELSE [history |-> h, removed |-> removed]

trimLoop(h, total, removed) ==
  IF Len(h) > 2 /\ total * 10 > contextWindowTokens * 8
  THEN trimLoop(<<h[1]>> \o SubSeq(h, 3, Len(h)),
                total - estimateTokens(h[2]), removed + 1)
  ELSE [history |-> h, removed |-> removed]

(* ------------------------------ events --------------------------------- *)

Ev(type) == [type |-> type, toolId |-> NoId, flag |-> FALSE, info |-> "", n |-> 0]

agentError(info, recoverable) ==
  [Ev("agent:error") EXCEPT !.info = info, !.flag = recoverable]

toolComplete(id, isError) ==
  [Ev("tool:complete") EXCEPT !.toolId = id, !.flag = isError]

toolEvent(type, id) == [Ev(type) EXCEPT !.toolId = id]

(* ------------------------------- state --------------------------------- *)

VARIABLES
  state,            \* this.state
  history,          \* this.history
  totalTokensIn,    \* this.totalTokensIn
  totalTokensOut,   \* this.totalTokensOut
  abortController,  \* this.abortController: 0 is null, i the controller of invocation i
  pendingApproval,  \* this.pendingApproval: NoId is null, else the stored toolId
  confirmDestructive, \* this.config.confirmDestructive
  inv,              \* the frames of the accepted processMessage invocations
  accepted,         \* number of accepted processMessage invocations
  aborted,          \* invocations whose live controller has an aborted signal
  running,          \* tool calls whose tool.execute promise is not settled
  timers,           \* tool calls whose timeout timer is armed
  emitted,          \* events the loop published during the last step
  requested,        \* number of tool calls the provider has requested so far
  finished,         \* toolIds whose result block processMessage has pushed
  trace,            \* per invocation: what happened to its current tool call
  adapter,          \* one streamChat call of a provider adapter
  bus,              \* the EventBus instance and what its last emit did
  sandbox,          \* one call of the path sandbox or of read_file
  files,            \* one write_file or edit_file call and the files it touches
  shell,            \* one bash call, its subprocess and its timers
  validation        \* one validateToolInput call

loopVars == <<state, history, totalTokensIn, totalTokensOut, abortController,
              pendingApproval, confirmDestructive, inv, accepted,
              aborted, running, timers, emitted, requested, finished, trace>>

toolVars == <<sandbox, files, shell, validation>>

vars == <<loopVars, adapter, bus, toolVars>>

Invs == 1..MaxInv

LoopStates == {"idle", "calling_model", "processing_tools", "waiting_approval", "error"}

ForeignId == <<0, 0, 1>>

\* the frame of an invocation that has not been made yet
NoFrame ==
  [pc |-> "none", turnsRemaining |-> 0, turn |-> 0, toolUses |-> <<>>,
   k |-> 0, toolResultBlocks |-> <<>>, approval |-> "none"]

\* no streamChat call has been made
AdapterIdle ==
  [family |-> "none", apc |-> "idle", text |-> <<>>, pos |-> 0,
   buffer |-> <<>>, pendingToolCalls |-> <<>>, events |-> <<>>,
   inputTokens |-> 0, outputTokens |-> 0, sdk |-> 0, started |-> <<>>,
   midLine |-> FALSE, aborted |-> FALSE, thrown |-> [name |-> "none", message |-> <<>>]]

\* the event types of the bus model: two ordinary ones and system:error
BusTypes == {"agent:text", "tool:complete", "system:error"}

maxHistory == 2

\* a bus nothing has subscribed to or published on; calls, published, threw,
\* root and registered describe the emit of the last step, if it made one
BusIdle ==
  [handlers |-> [t \in BusTypes |-> <<>>], history |-> <<>>, rejected |-> 0,
   calls |-> <<>>, published |-> <<>>, threw |-> FALSE, root |-> "none",
   registered |-> <<>>]

\* no tool, sandbox or validator call has been made
NotRun == [op |-> "none"]

ToolsIdle ==
  /\ sandbox = NotRun
  /\ files = NotRun
  /\ shell = NotRun
  /\ validation = NotRun

\* the program state as one record, so that the synchronous segments of the
\* code compose as functions
Cur ==
  [state |-> state, history |-> history, totalTokensIn |-> totalTokensIn,
   totalTokensOut |-> totalTokensOut, abortController |-> abortController,
   pendingApproval |-> pendingApproval,
   confirmDestructive |-> confirmDestructive, requested |-> requested,
   finished |-> finished,
   inv |-> inv, accepted |-> accepted, aborted |-> aborted,
   running |-> running, timers |-> timers, emitted |-> <<>>, trace |-> trace]

Becomes(s) ==
  /\ state' = s.state
  /\ history' = s.history
  /\ totalTokensIn' = s.totalTokensIn
  /\ totalTokensOut' = s.totalTokensOut
  /\ abortController' = s.abortController
  /\ pendingApproval' = s.pendingApproval
  /\ confirmDestructive' = s.confirmDestructive
  /\ requested' = s.requested
  /\ finished' = s.finished
  /\ inv' = s.inv
  /\ accepted' = s.accepted
  /\ aborted' = s.aborted
  /\ running' = s.running
  /\ timers' = s.timers
  /\ emitted' = s.emitted
  /\ trace' = s.trace
  /\ UNCHANGED <<adapter, bus, toolVars>>

\* the toolId of the call invocation i is working on
CurId(s, i) == <<i, s.inv[i].turn, s.inv[i].k>>

CurCall(s, i) == s.inv[i].toolUses[s.inv[i].k]

\* trace[i] lists what has happened so far to the call invocation i is
\* working on
Has(t, what) == \E n \in 1..Len(t) : t[n] = what

Mark(s, i, what) == [s EXCEPT !.trace[i] = Append(@, what)]

MarkOnce(s, i, what) ==
  IF Has(s.trace[i], what) THEN s ELSE Mark(s, i, what)

(* ----------------------------- event bus ------------------------------- *)

\* bus.emit by the loop
Emit(s, e) == [s EXCEPT !.emitted = Append(@, e)]

\* the resolve callback stored with the pending approval of call id: it
\* settles that call's promise, once
resolveApproval(s, id, approved) ==
  LET i == id[1]
  IN  IF /\ i \in Invs
         /\ s.inv[i].pc = "approval"
         /\ CurId(s, i) = id
         /\ s.inv[i].approval = "pending"
      THEN [s EXCEPT !.inv[i].approval =
                        IF approved THEN "approved" ELSE "denied"]
      ELSE s

\* the constructor's handlers of tool:approved and tool:denied
onDecision(s, id, approved) ==
  IF s.pendingApproval # NoId /\ s.pendingApproval = id
  THEN resolveApproval(s, id, approved)
  ELSE s

\* bus.emit of a tool:approved / tool:denied event by a subscriber or caller
publishDecision(s, id, approved) ==
  LET i == id[1]
      seen == IF /\ i \in Invs
                 /\ CurId(s, i) = id
                 /\ Has(s.trace[i], "approval_required")
                 /\ s.inv[i].approval \in {"none", "pending"}
              THEN MarkOnce(s, i, IF approved THEN "approved" ELSE "denied")
              ELSE s
  IN  onDecision(seen, id, approved)

(* ----------------------------- AgentLoop ------------------------------- *)

\* finish without the max-turns error
finish_noCeilingError(s, i) ==
  [s EXCEPT !.state = "idle",
            !.inv[i] = [NoFrame EXCEPT !.pc = "done"],
            !.trace[i] = <<>>]

\* processMessage after the while loop: the max-turns check and the return
finish(s, i) ==
  LET s1 == IF s.inv[i].turnsRemaining = 0
            THEN Emit(s, agentError("max_turns", TRUE))
            ELSE s
  IN  [s1 EXCEPT !.state = "idle",
                 !.inv[i] = [NoFrame EXCEPT !.pc = "done"],
                 !.trace[i] = <<>>]

\* callModel up to its first await: new controller, thinking event, stream.
\* The thinking event is tagged with the invocation that publishes it and
\* the number of model calls that invocation has completed.
callModelStart(s, i) ==
  LET s1 == [s EXCEPT !.state = "calling_model",
                      !.abortController = i,
                      !.inv[i].pc = "stream"]
  IN  Emit(s1, toolEvent("agent:thinking", <<i, s.inv[i].turn, 0>>))

\* the head of the while loop of processMessage
loopHead(s, i) ==
  IF s.inv[i].turnsRemaining > 0
  THEN callModelStart([s EXCEPT !.inv[i].turnsRemaining = @ - 1], i)
  ELSE finish(s, i)

\* requestApproval: the event is published, and its subscribers run, before
\* the promise executor stores the pending approval.  handler is what a
\* subscriber of tool:approval_required does inside the emit.
requestApproval(s, i, handler) ==
  LET id == CurId(s, i)
      s1 == [s EXCEPT !.state = "waiting_approval"]
      s2 == Mark(Emit(s1, toolEvent("tool:approval_required", id)), i,
                 "approval_required")
      s3 == IF handler = "approve" THEN publishDecision(s2, id, TRUE)
            ELSE IF handler = "deny" THEN publishDecision(s2, id, FALSE)
            ELSE s2
  IN  [s3 EXCEPT !.pendingApproval = id,
                 !.inv[i].approval = "pending",
                 !.inv[i].pc = "approval"]

\* executeTool from the tool:executing event to the await of Promise.race
startRace(s, i) ==
  LET id == CurId(s, i)
      s1 == Mark(Emit(s, toolEvent("tool:executing", id)), i, "executing")
      s2 == Mark(s1, i, "execute")
  IN  [s2 EXCEPT !.running = @ \cup {id},
                 !.timers = @ \cup {id},
                 !.inv[i].pc = "race"]

RECURSIVE executeTool(_, _, _)

\* afterTool that gives up the turn at the first error result
afterTool_stopsOnError(s, i, result, handler) ==
  LET f == s.inv[i]
      block == [type |-> "tool_result", toolCallId |-> f.toolUses[f.k].id,
                content |-> result.content, isError |-> result.isError]
      s1 == [s EXCEPT !.inv[i].toolResultBlocks = Append(@, block),
                      !.inv[i].approval = "none",
                      !.finished = @ \cup {CurId(s, i)},
                      !.trace[i] = <<>>]
      s2 == [s1 EXCEPT !.history = Append(@, blockMessage("user",
                                      s1.inv[i].toolResultBlocks)),
                       !.inv[i].toolUses = <<>>,
                       !.inv[i].toolResultBlocks = <<>>,
                       !.inv[i].k = 0]
  IN  IF result.isError THEN finish(s2, i)
      ELSE IF f.k < Len(f.toolUses)
      THEN executeTool([s1 EXCEPT !.inv[i].k = @ + 1], i, handler)
      ELSE loopHead(s2, i)

\* the body of the for loop of processMessage after await executeTool: the
\* tool_result block, then the next tool or the wrapper and the next turn
afterTool(s, i, result, handler) ==
  LET f == s.inv[i]
      block == [type |-> "tool_result", toolCallId |-> f.toolUses[f.k].id,
                content |-> result.content, isError |-> result.isError]
      s1 == [s EXCEPT !.inv[i].toolResultBlocks = Append(@, block),
                      !.inv[i].approval = "none",
                      !.finished = @ \cup {CurId(s, i)},
                      !.trace[i] = <<>>]
  IN  IF f.k < Len(f.toolUses)
      THEN executeTool([s1 EXCEPT !.inv[i].k = @ + 1], i, handler)
      ELSE loopHead([s1 EXCEPT
                       !.history = Append(@, blockMessage("user",
                                      s1.inv[i].toolResultBlocks)),
                       !.inv[i].toolUses = <<>>,
                       !.inv[i].toolResultBlocks = <<>>,
                       !.inv[i].k = 0], i)

\* completeTool with the event of the denial path left out
completeTool_silentDenial(s, i, content, isError, handler) ==
  afterTool(IF content = "denied" THEN s
            ELSE Emit(s, [toolComplete(CurId(s, i), isError) EXCEPT !.info = content]),
            i, [content |-> content, isError |-> isError], handler)

\* executeTool returns result: the tool:complete event and the return value,
\* which the awaiting processMessage takes up
completeTool(s, i, content, isError, handler) ==
  afterTool(Emit(s, [toolComplete(CurId(s, i), isError) EXCEPT !.info = content]),
            i, [content |-> content, isError |-> isError], handler)

\* executeTool without the confirmation step
executeTool_skipsApproval(s, i, handler) ==
  LET call == CurCall(s, i)
      found == toolMap(call.name)
      tool == CHOOSE t \in found : TRUE
  IN  IF found = {} THEN completeTool(s, i, "unknown_tool", TRUE, handler)
      ELSE IF ~validateToolInput(tool, call.input)
      THEN completeTool(s, i, "invalid_input", TRUE, handler)
      ELSE startRace(s, i)

\* executeTool up to its first await (or its return), for the call at k
executeTool(s, i, handler) ==
  LET call == CurCall(s, i)
      found == toolMap(call.name)
      tool == CHOOSE t \in found : TRUE
  IN  IF found = {} THEN completeTool(s, i, "unknown_tool", TRUE, handler)
      ELSE IF ~validateToolInput(tool, call.input)
      THEN completeTool(s, i, "invalid_input", TRUE, handler)
      ELSE IF tool.requiresConfirmation /\ s.confirmDestructive
      THEN requestApproval(s, i, handler)
      ELSE startRace(s, i)

\* the usage a done event reports
doneUsage == [inputTokens |-> 3, outputTokens |-> 1]

RECURSIVE toolUseBlocks(_, _, _)
toolUseBlocks(i, turn, calls) ==
  IF calls = <<>> THEN <<>>
  ELSE toolUseBlocks(i, turn, SubSeq(calls, 1, Len(calls) - 1)) \o
       << [type |-> "tool_use", id |-> <<i, turn, Len(calls)>>,
           name |-> calls[Len(calls)].name,
           input |-> calls[Len(calls)].input] >>

RECURSIVE emitToolRequests(_, _)
emitToolRequests(s, blocks) ==
  IF blocks = <<>> THEN s
  ELSE emitToolRequests(Emit(s, toolEvent("agent:tool_request", Head(blocks).id)),
                        Tail(blocks))

\* processMessage resumed with the content blocks callModel returned
afterModel(s, i, contentBlocks, handler) ==
  LET toolUses == SelectSeq(contentBlocks, LAMBDA b : b.type = "tool_use")
      s1 == [s EXCEPT !.inv[i].toolUses = toolUses,
                      !.inv[i].toolResultBlocks = <<>>,
                      !.inv[i].approval = "none",
                      !.trace[i] = <<>>]
  IN  IF toolUses = <<>>
      THEN finish([s1 EXCEPT !.state = "idle"], i)
      ELSE executeTool([s1 EXCEPT !.state = "processing_tools",
                                  !.inv[i].k = 1], i, handler)

\* callModel from the end of the provider stream to its return, and
\* processMessage taking up the returned value
\* out.kind: "done" (the stream ended), "abort" (an AbortError was thrown),
\* "error" (an error event or another exception)
callModelEnd(s, i, out, handler) ==
  LET fin == [s EXCEPT !.abortController = 0, !.aborted = @ \ {i},
                       !.inv[i].turn = @ + 1]
  IN  IF out.kind = "done"
      THEN LET uses == toolUseBlocks(i, fin.inv[i].turn, out.calls)
               contentBlocks ==
                 (IF out.text THEN << [type |-> "text"] >> ELSE <<>>) \o uses
               s1 == IF out.text THEN Emit(fin, Ev("agent:text")) ELSE fin
               s2 == emitToolRequests(s1, uses)
               s3 == IF out.text THEN Emit(s2, Ev("agent:text:done")) ELSE s2
               s4 == Emit(s3, Ev("agent:turn_complete"))
           IN  afterModel(
                 [s4 EXCEPT
                    !.totalTokensIn = @ + doneUsage.inputTokens,
                    !.totalTokensOut = @ + doneUsage.outputTokens,
                    !.history = Append(@, blockMessage("assistant", contentBlocks))],
                 i, contentBlocks, handler)
      ELSE IF out.kind = "abort"
      THEN finish([Emit(fin, agentError("cancelled", TRUE)) EXCEPT
                     !.state = "idle"], i)
      ELSE LET info == IF out.rate THEN "rate"
                       ELSE IF out.auth THEN "auth" ELSE "other"
           IN  finish([Emit(fin, agentError(info, ~out.auth)) EXCEPT
                         !.state = "error"], i)

\* executeTool resumed with the value of the approval promise
afterApproval(s, i, handler) ==
  IF s.inv[i].approval = "approved" THEN startRace(s, i)
  ELSE completeTool(s, i, "denied", TRUE, handler)

\* executeTool resumed when tool.execute settles first in the race
afterExecute(s, i, outcome, handler) ==
  LET id == CurId(s, i)
      s1 == [s EXCEPT !.running = @ \ {id}]
  IN  IF outcome = "throw"
      THEN completeTool(s1, i, "tool_error", TRUE, handler)
      ELSE completeTool([s1 EXCEPT !.timers = @ \ {id}], i,
                        IF outcome = "error" THEN "tool_reported_error" ELSE "ok",
                        outcome = "error", handler)

\* the setTimeout callback of the race for call id
timeoutFires(s, id, handler) ==
  LET i == id[1]
      s1 == [s EXCEPT !.timers = @ \ {id}]
  IN  IF s.inv[i].pc = "race" /\ CurId(s, i) = id
      THEN completeTool(s1, i, "timeout", TRUE, handler)
      ELSE s1

trimContextIfNeeded(s) ==
  LET total == totalTokens(s.history)
  IN  IF total <= contextWindowTokens THEN s
      ELSE LET first == s.history[1]
               r == trimLoop(s.history, total, 0)
               h == IF r.history[1] # first THEN <<first>> \o r.history
                    ELSE r.history
               s1 == [s EXCEPT !.history = h]
           IN  IF r.removed > 0
               THEN Emit(s1, [Ev("session:context_trimmed") EXCEPT !.n = r.removed])
               ELSE s1

\* processMessage with the user message pushed before the busy check
processMessage_pushesFirst(s, chars) ==
  LET s0 == [s EXCEPT !.history = Append(@, userMessage(chars))]
  IN  IF s.state # "idle"
      THEN Emit(s0, agentError("busy", TRUE))
      ELSE LET i == s.accepted + 1
               s2 == trimContextIfNeeded([s0 EXCEPT !.accepted = i])
               s3 == [s2 EXCEPT !.inv[i] = [NoFrame EXCEPT !.turnsRemaining = maxTurns],
                                !.trace[i] = <<>>]
           IN  loopHead(s3, i)

\* processMessage: the busy check, the user message, trimming, and the while
\* loop up to its first suspension
processMessage(s, chars) ==
  IF s.state # "idle"
  THEN Emit(s, agentError("busy", TRUE))
  ELSE LET i == s.accepted + 1
           s1 == [s EXCEPT !.history = Append(@, userMessage(chars)),
                           !.accepted = i]
           s2 == trimContextIfNeeded(s1)
           s3 == [s2 EXCEPT !.inv[i] = [NoFrame EXCEPT !.turnsRemaining = maxTurns],
                            !.trace[i] = <<>>]
       IN  loopHead(s3, i)

cancel(s) ==
  LET s1 == IF s.abortController # 0
            THEN [s EXCEPT !.aborted = @ \cup {s.abortController}]
            ELSE s
      s2 == IF s1.pendingApproval # NoId
            THEN LET r == resolveApproval(s1, s1.pendingApproval, FALSE)
                     m == IF r # s1 THEN Mark(r, s1.pendingApproval[1], "cancel")
                          ELSE r
                 IN  [m EXCEPT !.pendingApproval = NoId]
            ELSE s1
  IN  [s2 EXCEPT !.state = "idle"]

\* clearHistory leaving the token counters as they are
clearHistory_keepsUsage(s) ==
  Emit([s EXCEPT !.history = <<>>, !.state = "idle"], Ev("session:cleared"))

clearHistory(s) ==
  Emit([s EXCEPT !.history = <<>>, !.state = "idle",
                 !.totalTokensIn = 0, !.totalTokensOut = 0],
       Ev("session:cleared"))

(* ------------------------------ inputs --------------------------------- *)

\* what a subscriber of tool:approval_required does inside the emit
Handlers == {"none", "approve", "deny"}

\* a subscriber's behaviour is an input only of a step that can publish an
\* approval request: one with a confirmation-requiring tool among calls
HandlersFor(calls) ==
  IF /\ confirmDestructive
     /\ \E n \in 1..Len(calls) :
          \E t \in toolMap(calls[n].name) : t.requiresConfirmation
  THEN Handlers
  ELSE {"none"}

\* the tool calls of invocation i that come after the one it is working on
laterCalls(i) == SubSeq(inv[i].toolUses, inv[i].k + 1, Len(inv[i].toolUses))

RECURSIVE SeqsUpTo(_, _)
SeqsUpTo(S, n) ==
  IF n = 0 THEN {<<>>}
  ELSE LET shorter == SeqsUpTo(S, n - 1)
       IN  shorter \cup {Append(q, x) : q \in shorter, x \in S}

\* how a provider stream may end: with a done event after a plain-text answer
\* or after tool calls, with an error, or with an AbortError
Outcomes ==
  {[kind |-> "done", text |-> (c = <<>>), calls |-> c,
    rate |-> FALSE, auth |-> FALSE] : c \in SeqsUpTo(ToolCallKinds, MaxTools)}
  \cup [kind : {"error"}, text : {FALSE}, calls : {<<>>},
        rate : BOOLEAN, auth : BOOLEAN]
  \cup [kind : {"abort"}, text : {FALSE}, calls : {<<>>},
        rate : {FALSE}, auth : {FALSE}]

\* the toolIds a publisher of a decision can name: those it has seen in an
\* approval request, the stored one, and one that belongs to no call
DecisionIds ==
  {ForeignId}
  \cup {CurId(Cur, i) : i \in {j \in Invs : inv[j].pc = "approval"}}
  \cup ({pendingApproval} \ {NoId})

(* ------------------------------ actions -------------------------------- *)

\* the fields of a new AgentLoop other than its history
Constructed ==
  /\ state = "idle"
  /\ totalTokensIn = 0
  /\ totalTokensOut = 0
  /\ abortController = 0
  /\ pendingApproval = NoId
  /\ confirmDestructive \in BOOLEAN
  /\ requested = 0
  /\ finished = {}
  /\ inv = [i \in Invs |-> NoFrame]
  /\ accepted = 0
  /\ aborted = {}
  /\ running = {}
  /\ timers = {}
  /\ emitted = <<>>
  /\ trace = [i \in Invs |-> <<>>]

LoopInit ==
  /\ Constructed
  /\ history = <<>>

Init ==
  /\ LoopInit
  /\ adapter = AdapterIdle
  /\ bus = BusIdle
  /\ ToolsIdle

\* a caller calls processMessage(text)
ProcessMessage ==
  \E chars \in UserChars :
    /\ state = "idle" => accepted < MaxInv
    /\ Becomes(processMessage(Cur, chars))

\* the provider stream of invocation i ends; callModel returns and
\* processMessage runs on to its next suspension
StreamEnds ==
  \E i \in Invs, out \in Outcomes :
   \E h \in HandlersFor(out.calls) :
    /\ inv[i].pc = "stream"
    /\ out.kind = "abort" => i \in aborted
    /\ Len(out.calls) <= MaxCalls - requested
    /\ Becomes([callModelEnd(Cur, i, out, h) EXCEPT
                  !.requested = @ + Len(out.calls)])

\* executeTool resumes after await this.requestApproval(...)
ApprovalSettles ==
  \E i \in Invs :
   \E h \in HandlersFor(laterCalls(i)) :
    /\ inv[i].pc = "approval"
    /\ inv[i].approval \in {"approved", "denied"}
    /\ Becomes(afterApproval(Cur, i, h))

\* tool.execute settles before the timeout and executeTool resumes
ToolSettles ==
  \E i \in Invs, outcome \in {"ok", "error", "throw"} :
   \E h \in HandlersFor(laterCalls(i)) :
    /\ inv[i].pc = "race"
    /\ CurId(Cur, i) \in running
    /\ Becomes(afterExecute(Cur, i, outcome, h))

\* an armed timeout timer fires
TimeoutFires ==
  \E id \in timers :
    \E h \in HandlersFor(laterCalls(id[1])) : Becomes(timeoutFires(Cur, id, h))

\* a tool.execute that lost the race settles; nobody awaits it
ToolFinishesLate ==
  \E id \in running :
    /\ ~(inv[id[1]].pc = "race" /\ CurId(Cur, id[1]) = id)
    /\ Becomes([Cur EXCEPT !.running = @ \ {id}])

\* a caller calls cancel()
Cancel == Becomes(cancel(Cur))

\* a caller calls clearHistory()
ClearHistory == Becomes(clearHistory(Cur))

\* somebody publishes tool:approved or tool:denied on the bus
Decision ==
  \E id \in DecisionIds, approved \in BOOLEAN :
    Becomes(publishDecision(Cur, id, approved))

Next ==
  \/ ProcessMessage
  \/ StreamEnds
  \/ ApprovalSettles
  \/ ToolSettles
  \/ TimeoutFires
  \/ ToolFinishesLate
  \/ Cancel
  \/ ClearHistory
  \/ Decision

Spec == Init /\ [][Next]_vars

\* a caller that waits for processMessage to return: it calls neither
\* cancel() nor clearHistory()
SoloNext ==
  \/ ProcessMessage
  \/ StreamEnds
  \/ ApprovalSettles
  \/ ToolSettles
  \/ TimeoutFires
  \/ ToolFinishesLate
  \/ Decision

SoloSpec == Init /\ [][SoloNext]_vars

(* --------------------------- provider adapters -------------------------- *)
(* One streamChat call.  The generic family (OpenAICompatibleProvider) reads *)
(* a server-sent-event text in chunks; a line of that text is two half-line  *)
(* characters and a newline, so that a read can end in the middle of a line. *)
(* The native family (AnthropicProvider) maps the events of the SDK stream.  *)

MaxLines == 4
MaxSdk == 3

Newline == <<"\n", 0>>

\* one element of delta.tool_calls
toolCallDelta(index, id, name, args) ==
  [index |-> index, id |-> id, name |-> name, arguments |-> args]

\* the JSON value of a data line that carries one
chunkJson(hasUsage, hasContent, toolCalls, finishReason) ==
  [usage |-> hasUsage, choice |-> TRUE, content |-> hasContent,
   tool_calls |-> toolCalls, finish_reason |-> finishReason]

LineNames ==
  {"text", "start0", "arg2", "argClose", "arg2Close", "start1", "finish",
   "usage", "bad", "comment", "sentinel", "empty"}

\* what JSON.parse gives for the data lines; lines without a JSON value are
\* classified by lineKind
payload(name) ==
  CASE name = "text"      -> chunkJson(FALSE, TRUE, <<>>, FALSE)
    [] name = "start0"    ->
         chunkJson(FALSE, FALSE, <<toolCallDelta(0, "c0", "f", <<"{a:1">>)>>, FALSE)
    [] name = "arg2"      ->
         chunkJson(FALSE, FALSE, <<toolCallDelta(0, "", "", <<"2">>)>>, FALSE)
    [] name = "argClose"  ->
         chunkJson(FALSE, FALSE, <<toolCallDelta(0, "", "", <<"}">>)>>, FALSE)
    [] name = "arg2Close" ->
         chunkJson(FALSE, FALSE, <<toolCallDelta(0, "", "", <<"2", "}">>)>>, FALSE)
    [] name = "start1"    ->
         chunkJson(FALSE, FALSE,
                   <<toolCallDelta(1, "c1", "g", <<"{a:1", "}">>)>>, FALSE)
    [] name = "finish"    -> chunkJson(FALSE, FALSE, <<>>, TRUE)
    [] name = "usage"     ->
         [chunkJson(TRUE, FALSE, <<>>, FALSE) EXCEPT !.choice = FALSE]
    [] OTHER              -> chunkJson(FALSE, FALSE, <<>>, FALSE)

\* the prompt and completion token counts of the usage line
usageLine == [prompt_tokens |-> 7, completion_tokens |-> 5]

\* "json": data line with a JSON value; "bad": data line whose text does not
\* parse; "sentinel": data: [DONE]; "comment": no data: prefix; "empty"
lineKind(name) ==
  IF name \in {"bad", "comment", "sentinel", "empty"} THEN name ELSE "json"

\* the characters of one line on the wire
encodeLine(name) ==
  IF name = "empty" THEN <<Newline>>
  ELSE << <<name, 1>>, <<name, 2>>, Newline >>

RECURSIVE encode(_)
encode(text) ==
  IF text = <<>> THEN <<>> ELSE encodeLine(Head(text)) \o encode(Tail(text))

\* a server of the protocol names a call's id on its first delta only, and
\* continues only a call it has started
Conformant(text) ==
  /\ \A p, q \in DOMAIN text :
       (p # q /\ text[p] = text[q]) => text[p] \notin {"start0", "start1"}
  /\ \A p \in DOMAIN text :
       text[p] \in {"arg2", "argClose", "arg2Close"}
         => \E q \in 1..(p - 1) : text[q] = "start0"

Texts ==
  {t \in UNION {[1..n -> LineNames] : n \in 0..MaxLines} : Conformant(t)}

\* buffer.split('\n') followed by lines.pop()
RECURSIVE splitLines(_, _, _)
splitLines(chars, cur, acc) ==
  IF chars = <<>> THEN [lines |-> acc, rest |-> cur]
  ELSE IF Head(chars) = Newline
  THEN splitLines(Tail(chars), <<>>, Append(acc, cur))
  ELSE splitLines(Tail(chars), Append(cur, Head(chars)), acc)

\* a provider event
PEv(type) ==
  [type |-> type, id |-> "", name |-> "", args |-> <<>>, input |-> {},
   inputTokens |-> 0, outputTokens |-> 0, error |-> <<>>]

\* an Error object: its name and the words of its message
Err(name, message) == [name |-> name, message |-> message]

NoErr == Err("none", <<>>)

yield(a, ev) == [a EXCEPT !.events = Append(@, ev)]

\* JSON.parse of an argument text made of the fragments {"a":1 , 2 and }
RECURSIVE digits(_, _)
digits(ds, v) == IF ds = <<>> THEN v ELSE digits(Tail(ds), v * 10 + 2)

parses(args) ==
  /\ Len(args) >= 2
  /\ args[1] = "{a:1"
  /\ args[Len(args)] = "}"
  /\ \A n \in 2..(Len(args) - 1) : args[n] = "2"

\* the object as the set of its key/value pairs
JSONparse(args) == {<<"a", digits(SubSeq(args, 2, Len(args) - 1), 1)>>}

\* let input = {}; try { input = JSON.parse(tc.args) } catch {}
parseArgs(args) == IF parses(args) THEN JSONparse(args) ELSE {}

\* the place of index in the pending-call table, 0 when it has none
pendingAt(pending, index) ==
  IF \E n \in DOMAIN pending : pending[n].index = index
  THEN CHOOSE n \in DOMAIN pending : pending[n].index = index
  ELSE 0

\* pendingToolCalls.set(index, entry): a Map keeps the place of an old key
pendingSet(pending, entry) ==
  LET n == pendingAt(pending, entry.index)
  IN  IF n = 0 THEN Append(pending, entry) ELSE [pending EXCEPT ![n] = entry]

\* one element of delta.tool_calls with the arguments appended to the pending
\* call's text
oneToolCall_append(a, tc) ==
  LET n == pendingAt(a.pendingToolCalls, tc.index)
  IN  IF tc.id # ""
      THEN LET a1 == [a EXCEPT !.pendingToolCalls =
                        pendingSet(@, [index |-> tc.index, id |-> tc.id,
                                       name |-> tc.name, args |-> tc.arguments])]
           IN  IF tc.name # ""
               THEN yield(a1, [PEv("tool_call_start") EXCEPT
                                 !.id = tc.id, !.name = tc.name])
               ELSE a1
      ELSE IF n # 0
      THEN LET a1 == IF tc.name # ""
                     THEN [a EXCEPT !.pendingToolCalls[n].name = tc.name]
                     ELSE a
           IN  IF tc.arguments # <<>>
               THEN yield([a1 EXCEPT !.pendingToolCalls[n].args =
                                        @ \o tc.arguments],
                          [PEv("tool_call_delta") EXCEPT
                             !.id = a.pendingToolCalls[n].id,
                             !.args = tc.arguments])
               ELSE a1
      ELSE a

\* the same with each fragment replacing the text received before it
oneToolCall_keepsLastFragment(a, tc) ==
  LET n == pendingAt(a.pendingToolCalls, tc.index)
      r == oneToolCall_append(a, tc)
  IN  IF tc.id = "" /\ n # 0 /\ tc.arguments # <<>>
      THEN [r EXCEPT !.pendingToolCalls[n].args = tc.arguments]
      ELSE r

oneToolCall(a, tc) == oneToolCall_append(a, tc)

RECURSIVE eachToolCall(_, _)
eachToolCall(a, tcs) ==
  IF tcs = <<>> THEN a
  ELSE eachToolCall(oneToolCall(a, Head(tcs)), Tail(tcs))

\* the loop over pendingToolCalls at a finish marker
RECURSIVE emitCompleted(_, _)
emitCompleted(a, pending) ==
  IF pending = <<>> THEN a
  ELSE LET tc == Head(pending)
       IN  emitCompleted(
             yield(a, [PEv("tool_call_end") EXCEPT
                         !.id = tc.id, !.name = tc.name,
                         !.input = parseArgs(tc.args)]),
             Tail(pending))

\* the loop body that yields an error for a data line that does not parse
processLine_rejectsMalformed(a, line) ==
  IF Len(line) = 2 /\ line[1][1] = "bad" /\ line[2][1] = "bad"
  THEN yield(a, [PEv("error") EXCEPT !.error = Err("SyntaxError", <<"Unexpected", "token">>)])
  ELSE IF Len(line) # 2 \/ lineKind(line[1][1]) # "json" THEN a
  ELSE LET parsed == payload(line[1][1])
           a1 == IF parsed.usage
                 THEN [a EXCEPT !.inputTokens = usageLine.prompt_tokens,
                                !.outputTokens = usageLine.completion_tokens]
                 ELSE a
           a2 == IF parsed.content THEN yield(a1, PEv("text_delta")) ELSE a1
           a3 == eachToolCall(a2, parsed.tool_calls)
       IN  IF ~parsed.choice THEN a1
           ELSE IF parsed.finish_reason
           THEN emitCompleted(a3, a3.pendingToolCalls)
           ELSE a3

\* the body of the loop over the complete lines of one read
processLine(a, line) ==
  LET whole == /\ Len(line) = 2
               /\ line[1][1] = line[2][1]
               /\ line[1][2] = 1
               /\ line[2][2] = 2
  IN  IF line = <<>> THEN a
      ELSE IF ~whole THEN a
      ELSE IF lineKind(line[1][1]) # "json" THEN a
      ELSE LET parsed == payload(line[1][1])
               a1 == IF parsed.usage
                     THEN [a EXCEPT
                             !.inputTokens = usageLine.prompt_tokens,
                             !.outputTokens = usageLine.completion_tokens]
                     ELSE a
           IN  IF ~parsed.choice THEN a1
               ELSE LET a2 == IF parsed.content
                              THEN yield(a1, PEv("text_delta")) ELSE a1
                        a3 == eachToolCall(a2, parsed.tool_calls)
                    IN  IF parsed.finish_reason
                        THEN emitCompleted(a3, a3.pendingToolCalls)
                        ELSE a3

RECURSIVE processLines(_, _)
processLines(a, lines) ==
  IF lines = <<>> THEN a
  ELSE processLines(processLine(a, Head(lines)), Tail(lines))

\* a read that splits value alone, the rest of the read before it forgotten
readChunk_forgetsBuffer(a, value) ==
  LET sp == splitLines(value, <<>>, <<>>)
  IN  processLines([a EXCEPT !.buffer = sp.rest,
                             !.midLine = @ \/ sp.rest # <<>>],
                   sp.lines)

\* one reader.read() that delivered value; midLine records that some read
\* ended inside a line
readChunk(a, value) ==
  LET sp == splitLines(a.buffer \o value, <<>>, <<>>)
  IN  processLines([a EXCEPT !.buffer = sp.rest,
                             !.midLine = @ \/ sp.rest # <<>>],
                   sp.lines)

\* fetch resolved with a response that has no OK status or no body; the
\* generator yields the error and goes on to read the body all the same
genericFailed_noReturn(a, res) ==
  [yield(a, [PEv("error") EXCEPT
               !.error = Err("Error", IF res = "notok429"
                                      THEN <<"API", "error", "429">>
                                      ELSE IF res = "notok401"
                                      THEN <<"API", "error", "401">>
                                      ELSE <<"No", "response", "body">>)])
   EXCEPT !.apc = "read"]

\* fetch resolved with a response that has no OK status or no body
genericFailed(a, res) ==
  [genericFailed_noReturn(a, res) EXCEPT !.apc = "ended"]

\* reader.read() reported done
genericDone(a) ==
  [yield(a, [PEv("done") EXCEPT !.inputTokens = a.inputTokens,
                               !.outputTokens = a.outputTokens])
   EXCEPT !.apc = "ended"]

\* the usage of the SDK's final message
finalUsage == [input_tokens |-> 9, output_tokens |-> 4]

RECURSIVE finalBlocks(_, _)
finalBlocks(a, content) ==
  IF content = <<>> THEN a
  ELSE finalBlocks(yield(a, [PEv("tool_call_end") EXCEPT
                               !.id = Head(content), !.name = "f",
                               !.input = {<<"a", 1>>}]),
                   Tail(content))

\* the SDK stream ended and finalMessage resolved
nativeFinal(a) ==
  [yield(finalBlocks(a, a.started),
         [PEv("done") EXCEPT !.inputTokens = finalUsage.input_tokens,
                            !.outputTokens = finalUsage.output_tokens])
   EXCEPT !.apc = "ended"]

\* the catch block of the native streamChat
nativeCatch(a, err) ==
  [yield(a, [PEv("error") EXCEPT
               !.error = IF err.name = "AbortError"
                         THEN Err("Error", <<"Request", "cancelled.">>)
                         ELSE err])
   EXCEPT !.apc = "ended"]

\* what the for-await of callModel ends with: the error it throws, or NoErr
\* when the stream ended without one
streamError(a) ==
  IF a.apc = "thrown" THEN a.thrown
  ELSE IF a.events # <<>> /\ a.events[Len(a.events)].type = "error"
  THEN a.events[Len(a.events)].error
  ELSE NoErr

includes(msg, word) == \E n \in DOMAIN msg : msg[n] = word

\* the catch block of callModel: the agent:error it publishes and the state
\* it sets
callModelCatch(err) ==
  IF err.name = "AbortError"
  THEN [message |-> <<"Request", "cancelled.">>, recoverable |-> TRUE,
        state |-> "idle", branch |-> "cancelled"]
  ELSE LET isRateLimit == \/ includes(err.message, "rate")
                          \/ includes(err.message, "429")
                          \/ includes(err.message, "too many")
           isAuthError == \/ includes(err.message, "authentication")
                          \/ includes(err.message, "401")
                          \/ /\ includes(err.message, "invalid")
                             /\ includes(err.message, "key")
       IN  [message |-> IF isRateLimit THEN <<"Rate", "limited.">>
                        ELSE IF isAuthError THEN <<"API", "key", "is", "invalid">>
                        ELSE err.message,
            recoverable |-> ~isAuthError,
            state |-> "error", branch |-> "provider_failure"]

AdapterInit ==
  /\ LoopInit
  /\ confirmDestructive
  /\ bus = BusIdle
  /\ ToolsIdle
  /\ \/ \E t \in Texts :
          adapter = [AdapterIdle EXCEPT !.family = "generic", !.apc = "fetch",
                                        !.text = t]
     \/ adapter = [AdapterIdle EXCEPT !.family = "native", !.apc = "stream"]

\* the fetch of the generic adapter resolves
GenericResponse ==
  /\ adapter.family = "generic"
  /\ adapter.apc = "fetch"
  /\ ~adapter.aborted
  /\ \E res \in {"ok", "notok429", "notok401", "nobody"} :
       adapter' = IF res = "ok" THEN [adapter EXCEPT !.apc = "read"]
                  ELSE genericFailed(adapter, res)
  /\ UNCHANGED <<loopVars, bus, toolVars>>

\* reader.read() resolves with the next n characters of the body
GenericRead ==
  /\ adapter.family = "generic"
  /\ adapter.apc = "read"
  /\ ~adapter.aborted
  /\ LET wire == encode(adapter.text)
     IN  \E n \in 1..(Len(wire) - adapter.pos) :
           adapter' = [readChunk(adapter,
                                 SubSeq(wire, adapter.pos + 1, adapter.pos + n))
                       EXCEPT !.pos = @ + n]
  /\ UNCHANGED <<loopVars, bus, toolVars>>

\* reader.read() resolves with done
GenericDone ==
  /\ adapter.family = "generic"
  /\ adapter.apc = "read"
  /\ ~adapter.aborted
  /\ adapter.pos = Len(encode(adapter.text))
  /\ adapter' = genericDone(adapter)
  /\ UNCHANGED <<loopVars, bus, toolVars>>

\* fetch or reader.read() rejects: with an AbortError once the signal is
\* aborted, with a network error otherwise; the generator throws it
GenericRejects ==
  /\ adapter.family = "generic"
  /\ adapter.apc \in {"fetch", "read"}
  /\ adapter' = [adapter EXCEPT
                   !.apc = "thrown",
                   !.thrown = IF adapter.aborted
                              THEN Err("AbortError", <<"This", "operation", "was", "aborted">>)
                              ELSE Err("TypeError", <<"fetch", "failed">>)]
  /\ UNCHANGED <<loopVars, bus, toolVars>>

\* the SDK stream delivers an event
NativeEvent ==
  /\ adapter.family = "native"
  /\ adapter.apc = "stream"
  /\ ~adapter.aborted
  /\ adapter.sdk < MaxSdk
  /\ \E kind \in {"text_delta", "tool_use", "other"} :
       LET a == [adapter EXCEPT !.sdk = @ + 1]
       IN  adapter' =
             IF kind = "text_delta" THEN yield(a, PEv("text_delta"))
             ELSE IF kind = "tool_use"
             THEN LET id == IF a.started = <<>> THEN "c0" ELSE "c1"
                  IN  yield([a EXCEPT !.started = Append(@, id)],
                            [PEv("tool_call_start") EXCEPT !.id = id, !.name = "f"])
             ELSE a
  /\ UNCHANGED <<loopVars, bus, toolVars>>

\* the SDK stream ends and its final message is available
NativeFinal ==
  /\ adapter.family = "native"
  /\ adapter.apc = "stream"
  /\ ~adapter.aborted
  /\ adapter' = nativeFinal(adapter)
  /\ UNCHANGED <<loopVars, bus, toolVars>>

\* the SDK throws inside the try block: after an abort its abort error, whose
\* name the SDK may or may not set to AbortError, otherwise an API error
NativeThrows ==
  /\ adapter.family = "native"
  /\ adapter.apc = "stream"
  /\ \E err \in IF adapter.aborted
                THEN {Err("AbortError", <<"Request", "was", "aborted.">>),
                      Err("Error", <<"Request", "was", "aborted.">>)}
                ELSE {Err("Error", <<"API", "error", "429">>),
                      Err("Error", <<"overloaded">>)} :
       adapter' = nativeCatch(adapter, err)
  /\ UNCHANGED <<loopVars, bus, toolVars>>

\* cancel() aborts the signal passed to streamChat while the call is in flight
AbortSignal ==
  /\ adapter.apc \in {"fetch", "read", "stream"}
  /\ ~adapter.aborted
  /\ adapter' = [adapter EXCEPT !.aborted = TRUE]
  /\ UNCHANGED <<loopVars, bus, toolVars>>

AdapterNext ==
  \/ GenericResponse
  \/ GenericRead
  \/ GenericDone
  \/ GenericRejects
  \/ NativeEvent
  \/ NativeFinal
  \/ NativeThrows
  \/ AbortSignal

AdapterSpec == AdapterInit /\ [][AdapterNext]_vars

(* ------------------------------ event bus ------------------------------- *)
(* The EventBus of event-bus.ts.  A handler is one of four functions, each   *)
(* with a fixed behaviour; emit is synchronous, so one publication with all  *)
(* the system:error publications nested in it is one step.                   *)

MaxSubs == 3
StackDepth == 3
MaxRejected == 2

HandlerFns == {"returns", "throws", "rejects", "unsubscribes"}

Subscriptions(b) == {<<t, n>> : t \in BusTypes, n \in 1..MaxSubs}
                      \cap {<<t, n>> \in BusTypes \X (1..MaxSubs) :
                              n \in DOMAIN b.handlers[t]}

RECURSIVE without(_, _)
without(seq, h) ==
  IF seq = <<>> THEN <<>>
  ELSE (IF Head(seq) = h THEN <<>> ELSE <<Head(seq)>>) \o without(Tail(seq), h)

member(seq, h) == \E n \in DOMAIN seq : seq[n] = h

\* on(type, handler): a Set keeps one entry per function, in insertion order
on(b, type, handler) ==
  IF member(b.handlers[type], handler) THEN b
  ELSE [b EXCEPT !.handlers[type] = Append(@, handler)]

\* the function on() returned
unsubscribe(b, type, handler) ==
  [b EXCEPT !.handlers[type] = without(@, handler)]

\* this.history.push(event) and the cut to the last maxHistory events
pushHistory(h, type) ==
  LET pushed == Append(h, type)
  IN  IF Len(pushed) > maxHistory
      THEN SubSeq(pushed, Len(pushed) - maxHistory + 1, Len(pushed))
      ELSE pushed

\* emit(event) at nesting depth depth, its loop over the handlers still to
\* visit, and the body of that loop; threw is set when the nesting has used
\* up the call stack, and the RangeError leaves every enclosing emit through
\* its catch block
RECURSIVE emit(_, _, _), dispatch(_, _, _, _), invoke(_, _, _, _)
emit(b, type, depth) ==
  IF depth > StackDepth THEN [b EXCEPT !.threw = TRUE]
  ELSE dispatch([b EXCEPT !.history = pushHistory(@, type),
                          !.published = Append(@, [type |-> type, depth |-> depth])],
                type, b.handlers[type], depth)

invoke(b, type, handler, depth) ==
  LET b1 == [b EXCEPT !.calls = Append(@, [handler |-> handler,
                                           type |-> type,
                                           depth |-> depth])]
  IN  CASE handler = "throws" -> emit(b1, "system:error", depth + 1)
        [] handler = "rejects" -> [b1 EXCEPT !.rejected = @ + 1]
        [] handler = "unsubscribes" -> unsubscribe(b1, type, handler)
        [] OTHER -> b1

\* the loop left at the first handler that throws
dispatch_stopsAtFailure(b, type, todo, depth) ==
  IF todo = <<>> \/ b.threw THEN b
  ELSE IF ~member(b.handlers[type], Head(todo))
  THEN dispatch(b, type, Tail(todo), depth)
  ELSE IF Head(todo) = "throws" THEN invoke(b, type, Head(todo), depth)
  ELSE dispatch(invoke(b, type, Head(todo), depth), type, Tail(todo), depth)

dispatch(b, type, todo, depth) ==
  IF todo = <<>> \/ b.threw THEN b
  ELSE IF ~member(b.handlers[type], Head(todo))
  THEN dispatch(b, type, Tail(todo), depth)
  ELSE dispatch(invoke(b, type, Head(todo), depth), type, Tail(todo), depth)

\* clear()
clear(b) == [b EXCEPT !.handlers = [t \in BusTypes |-> <<>>], !.history = <<>>]

\* the bus as a publisher or a promise callback finds it
fresh(b, root, type) ==
  [b EXCEPT !.calls = <<>>, !.published = <<>>, !.threw = FALSE,
            !.root = root, !.registered = b.handlers[type]]

\* the bus after a step that made no emit
quiet(b) ==
  [b EXCEPT !.calls = <<>>, !.published = <<>>, !.threw = FALSE,
            !.root = "none", !.registered = <<>>]

BusInit ==
  /\ LoopInit
  /\ confirmDestructive
  /\ adapter = AdapterIdle
  /\ bus = BusIdle
  /\ ToolsIdle

Subscribe ==
  /\ \E type \in BusTypes, handler \in HandlerFns :
       /\ Cardinality(Subscriptions(bus)) < MaxSubs
       /\ ~member(bus.handlers[type], handler)
       /\ bus' = on(quiet(bus), type, handler)
  /\ UNCHANGED <<loopVars, adapter, toolVars>>

Unsubscribe ==
  /\ \E type \in BusTypes, handler \in HandlerFns :
       /\ member(bus.handlers[type], handler)
       /\ bus' = unsubscribe(quiet(bus), type, handler)
  /\ UNCHANGED <<loopVars, adapter, toolVars>>

\* a publisher calls emit
Publish ==
  /\ \E type \in BusTypes :
       LET b == emit(fresh(bus, "publish", type), type, 0)
       IN  /\ b.rejected <= MaxRejected
           /\ bus' = b
  /\ UNCHANGED <<loopVars, adapter, toolVars>>

\* the catch callback of a rejected handler promise runs
RejectionCaught ==
  /\ bus.rejected > 0
  /\ LET b == emit([fresh(bus, "callback", "system:error") EXCEPT
                      !.rejected = @ - 1],
                   "system:error", 0)
     IN  /\ b.rejected <= MaxRejected
         /\ bus' = b
  /\ UNCHANGED <<loopVars, adapter, toolVars>>

Clear ==
  /\ bus.handlers # BusIdle.handlers
  /\ bus' = clear(quiet(bus))
  /\ UNCHANGED <<loopVars, adapter, toolVars>>

BusNext ==
  \/ Subscribe
  \/ Unsubscribe
  \/ Publish
  \/ RejectionCaught
  \/ Clear

BusSpec == BusInit /\ [][BusNext]_vars

(* ---------------------------- context trimming -------------------------- *)
(* processMessage on an idle loop whose history is any of the histories     *)
(* earlier invocations can have left: an anchor followed by messages of the *)
(* kinds the loop appends.                                                   *)

MaxMiddle == 3

\* lengths of the user messages: 2, 12 and 30 estimated tokens
TrimChars == {8, 48, 120}

\* the messages callModel and processMessage append after the user message
LaterMessages ==
  {userMessage(8),
   blockMessage("assistant", << [type |-> "text"] >>),
   blockMessage("assistant", << [type |-> "tool_use", id |-> ForeignId] >>),
   blockMessage("user", << [type |-> "tool_result", toolCallId |-> ForeignId,
                            isError |-> FALSE] >>)}

TrimHistories ==
  {<<>>}
  \cup {<<userMessage(c)>> \o m :
          c \in TrimChars,
          m \in UNION {[1..n -> LaterMessages] : n \in 0..MaxMiddle}}

TrimInit ==
  /\ Constructed
  /\ confirmDestructive
  /\ history \in TrimHistories
  /\ adapter = AdapterIdle
  /\ bus = BusIdle
  /\ ToolsIdle

\* a caller calls processMessage with a text of one of the three lengths
ProcessMessageSized ==
  \E chars \in TrimChars :
    /\ state = "idle" => accepted < MaxInv
    /\ Becomes(processMessage(Cur, chars))

TrimSpec == TrimInit /\ [][ProcessMessageSized]_vars

(* ------------------------ trimming paired histories --------------------- *)
(* processMessage on an idle loop whose history earlier invocations have    *)
(* left well paired: an anchor followed by exchanges, each a plain answer    *)
(* or an assistant message with one tool_use and the wrapper of its result,  *)
(* in serialized lengths on the scale of contextWindowTokens.                *)

MaxExchanges == 2

\* serialized lengths of an assistant message and of a wrapper: 2 and 16
\* estimated tokens
PairChars == {8, 64}

\* what one turn of an earlier invocation has appended, the tool call having
\* the id <<0, 0, n>>
Exchanges(n) ==
  {<< blockMessage("assistant", << [type |-> "text"] >>) >>}
  \cup {<< [blockMessage("assistant", << [type |-> "tool_use", id |-> <<0, 0, n>>] >>)
              EXCEPT !.chars = a],
           [blockMessage("user", << [type |-> "tool_result",
                                     toolCallId |-> <<0, 0, n>>,
                                     isError |-> FALSE] >>)
              EXCEPT !.chars = w] >> : a \in PairChars, w \in PairChars}

RECURSIVE ExchangeSeqs(_)
ExchangeSeqs(n) ==
  IF n = 0 THEN {<<>>}
  ELSE ExchangeSeqs(n - 1)
       \cup {q \o x : q \in ExchangeSeqs(n - 1), x \in Exchanges(n)}

PairedHistories ==
  {<<userMessage(c)>> \o m : c \in TrimChars, m \in ExchangeSeqs(MaxExchanges)}

PairInit ==
  /\ Constructed
  /\ confirmDestructive
  /\ history \in PairedHistories
  /\ adapter = AdapterIdle
  /\ bus = BusIdle
  /\ ToolsIdle

PairSpec == PairInit /\ [][ProcessMessageSized]_vars

(* ------------------------------ path sandbox ---------------------------- *)
(* resolveSafePath, safeStat and read_file on POSIX paths.  A path is the    *)
(* sequence of its characters, so that the prefix test of the sandbox is a   *)
(* test on characters, as in the code.                                       *)

MaxPath == 5

PathChars == {"/", ".", "r", "l"}

\* the values projectRoot takes: "/", "/r" and "/r/r"
Roots == {<<"/">>, <<"/", "r">>, <<"/", "r", "/", "r">>}

InputPaths == UNION {[1..n -> PathChars] : n \in 0..MaxPath}

\* str.split("/")
RECURSIVE splitPath(_, _, _)
splitPath(chars, cur, acc) ==
  IF chars = <<>> THEN Append(acc, cur)
  ELSE IF Head(chars) = "/"
  THEN splitPath(Tail(chars), <<>>, Append(acc, cur))
  ELSE splitPath(Tail(chars), Append(cur, Head(chars)), acc)

\* the segments that remain when "", "." and ".." are resolved
RECURSIVE normalizeSegments(_, _)
normalizeSegments(segs, stack) ==
  IF segs = <<>> THEN stack
  ELSE LET seg == Head(segs)
       IN  normalizeSegments(
             Tail(segs),
             IF seg = <<>> \/ seg = <<".">> THEN stack
             ELSE IF seg = <<".", ".">>
             THEN (IF stack = <<>> THEN stack
                   ELSE SubSeq(stack, 1, Len(stack) - 1))
             ELSE Append(stack, seg))

RECURSIVE joinPath(_)
joinPath(segs) ==
  IF segs = <<>> THEN <<>>
  ELSE <<"/">> \o Head(segs) \o joinPath(Tail(segs))

\* the absolute path with the given segments
absolute(segs) == IF segs = <<>> THEN <<"/">> ELSE joinPath(segs)

\* path.resolve(root, inputPath)
pathResolve(root, inputPath) ==
  IF inputPath # <<>> /\ inputPath[1] = "/"
  THEN absolute(normalizeSegments(splitPath(inputPath, <<>>, <<>>), <<>>))
  ELSE absolute(normalizeSegments(
                  splitPath(root \o <<"/">> \o inputPath, <<>>, <<>>), <<>>))

\* path.normalize of an absolute path: a trailing separator is kept
pathNormalize(p) ==
  LET segs == normalizeSegments(splitPath(p, <<>>, <<>>), <<>>)
  IN  IF segs = <<>> THEN <<"/">>
      ELSE IF p[Len(p)] = "/" THEN joinPath(segs) \o <<"/">>
      ELSE joinPath(segs)

startsWith(str, prefix) ==
  /\ Len(str) >= Len(prefix)
  /\ SubSeq(str, 1, Len(prefix)) = prefix

\* the test of resolveSafePath without the separator after the root
withinRoot_prefixOnly(root, p) == startsWith(p, root)

\* normalized.startsWith(projectRoot + path.sep) || normalized === projectRoot
withinRoot(root, p) == startsWith(p, root \o <<"/">>) \/ p = root

\* resolveSafePath: the path returned, or threw for PathTraversalError
resolveSafePath(root, inputPath) ==
  LET resolved == pathResolve(root, inputPath)
      normalized == pathNormalize(resolved)
  IN  IF ~withinRoot(root, normalized)
      THEN [threw |-> TRUE, path |-> <<>>]
      ELSE [threw |-> FALSE, path |-> normalized]

\* the file system: a host file /l outside the roots /r and /r/r, a link to
\* it at /r/l, a project file /r/r/l and a link to that at /r/r/r
Links ==
  (<< <<"/", "r", "/", "l">> >> :> <<"/", "l">>)
  @@ (<< <<"/", "r", "/", "r", "/", "r">> >> :> <<"/", "r", "/", "r", "/", "l">>)

IsLink(p) == <<p>> \in DOMAIN Links

Directories == {<<"/">>, <<"/", "r">>, <<"/", "r", "/", "r">>}

\* the lines of the regular files
FileLines(p) ==
  IF p = <<"/", "l">> THEN <<"host secret">>
  ELSE IF p = <<"/", "r", "/", "r", "/", "l">> THEN <<"project", "text">>
  ELSE <<>>

IsFile(p) == p \in {<<"/", "l">>, <<"/", "r", "/", "r", "/", "l">>}

\* fs.realpath: the file a path names once its link is followed
realpath(p) == IF IsLink(p) THEN Links[<<p>>] ELSE p

exists(p) == IsLink(p) \/ IsFile(p) \/ p \in Directories

\* safeStat: null, or what lstat reports for the resolved path
safeStat(root, inputPath) ==
  LET safe == resolveSafePath(root, inputPath)
  IN  IF safe.threw THEN [null |-> TRUE]
      ELSE IF ~exists(safe.path) THEN [null |-> TRUE]
      ELSE IF IsLink(safe.path) /\ ~withinRoot(root, realpath(safe.path))
      THEN [null |-> TRUE]
      ELSE [null |-> FALSE, path |-> safe.path,
            isFile |-> IsFile(safe.path),
            isDirectory |-> safe.path \in Directories,
            isSymlink |-> IsLink(safe.path)]

\* the numbered lines read_file returns: line number, tab, line
RECURSIVE numbered(_, _)
numbered(lines, startIdx) ==
  IF lines = <<>> THEN <<>>
  ELSE << <<startIdx + 1, "\t", Head(lines)>> >>
       \o numbered(Tail(lines), startIdx + 1)

toolError(why) == [isError |-> TRUE, content |-> << <<0, why, "">> >>]

\* readFileTool.execute with the default offset and limit; stat and readFile
\* follow symbolic links
readFile(root, inputPath) ==
  LET safe == resolveSafePath(root, inputPath)
      target == realpath(safe.path)
  IN  IF safe.threw THEN toolError("PathTraversalError")
      ELSE IF ~exists(target) THEN toolError("File not found")
      ELSE IF target \in Directories THEN toolError("Error reading file")
      ELSE [isError |-> FALSE, content |-> numbered(FileLines(target), 0)]

SandboxInit ==
  /\ LoopInit
  /\ confirmDestructive
  /\ adapter = AdapterIdle
  /\ bus = BusIdle
  /\ files = NotRun
  /\ shell = NotRun
  /\ validation = NotRun
  /\ \E root \in Roots, inputPath \in InputPaths :
       sandbox = [op |-> "none", root |-> root, inputPath |-> inputPath,
                  out |-> <<>>]

\* a tool calls resolveSafePath(inputPath)
ResolveSafePath ==
  /\ sandbox.op = "none"
  /\ sandbox' = [sandbox EXCEPT
                   !.op = "resolveSafePath",
                   !.out = resolveSafePath(sandbox.root, sandbox.inputPath)]
  /\ UNCHANGED <<loopVars, adapter, bus, files, shell, validation>>

\* a caller awaits safeStat(inputPath)
SafeStat ==
  /\ sandbox.op = "none"
  /\ sandbox' = [sandbox EXCEPT
                   !.op = "safeStat",
                   !.out = safeStat(sandbox.root, sandbox.inputPath)]
  /\ UNCHANGED <<loopVars, adapter, bus, files, shell, validation>>

\* the loop awaits read_file's execute({path: inputPath})
ReadFile ==
  /\ sandbox.op = "none"
  /\ sandbox' = [sandbox EXCEPT
                   !.op = "read_file",
                   !.out = readFile(sandbox.root, sandbox.inputPath)]
  /\ UNCHANGED <<loopVars, adapter, bus, files, shell, validation>>

SandboxNext ==
  \/ ResolveSafePath
  \/ SafeStat
  \/ ReadFile

SandboxSpec == SandboxInit /\ [][SandboxNext]_vars

(* ---------------------------- list_directory ---------------------------- *)
(* One list_directory call on a directory tree.  A directory is the number   *)
(* of its visible files, whether its name is one of SKIP_DIRS, and the       *)
(* sequence of its visible subdirectories; hidden entries, which the listing *)
(* passes over, are left out.  The output is the number of its entry lines   *)
(* and the number of its truncation markers.                                 *)

\* the line count above which listDir stops
MaxEntries == 500

MaxSubdirs == 2

\* numbers of files in one directory
FileCounts == {0, 1, 499, 600}

Leaves == [files : FileCounts, skip : BOOLEAN, dirs : {<<>>}]

Trees ==
  [files : FileCounts, skip : {FALSE},
   dirs : UNION {[1..n -> Leaves] : n \in 0..MaxSubdirs}]

RECURSIVE listDir(_, _, _, _)

\* the loop of listDir over the subdirectories, which sort first
RECURSIVE listSubdirs(_, _, _, _)
listSubdirs(dirs, lines, maxDepth, currentDepth) ==
  IF dirs = <<>> THEN lines
  ELSE LET d == Head(dirs)
           named == [lines EXCEPT !.entries = @ + 1]
       IN  listSubdirs(Tail(dirs),
                       IF d.skip THEN named
                       ELSE listDir(d, named, maxDepth, currentDepth + 1),
                       maxDepth, currentDepth)

\* listDir: the depth test, the line-count test, then one line per entry
listDir(dir, lines, maxDepth, currentDepth) ==
  IF currentDepth >= maxDepth THEN lines
  ELSE IF lines.entries + lines.markers > MaxEntries
  THEN [lines EXCEPT !.markers = @ + 1]
  ELSE [listSubdirs(dir.dirs, lines, maxDepth, currentDepth)
          EXCEPT !.entries = @ + dir.files]

\* listDirTool.execute on a directory inside the root
listDirectory(tree, recursive) ==
  LET lines == listDir(tree, [entries |-> 0, markers |-> 0],
                       IF recursive THEN 3 ELSE 1, 0)
  IN  [isError |-> FALSE, empty |-> lines.entries + lines.markers = 0,
       entries |-> lines.entries, markers |-> lines.markers]

ListInit ==
  /\ LoopInit
  /\ confirmDestructive
  /\ adapter = AdapterIdle
  /\ bus = BusIdle
  /\ files = NotRun
  /\ shell = NotRun
  /\ validation = NotRun
  /\ \E tree \in Trees, recursive \in BOOLEAN :
       sandbox = [op |-> "none", tree |-> tree, recursive |-> recursive,
                  out |-> [isError |-> FALSE, empty |-> TRUE, entries |-> 0,
                           markers |-> 0]]

\* the loop awaits list_directory's execute({path, recursive})
ListDirectory ==
  /\ sandbox.op = "none"
  /\ sandbox' = [sandbox EXCEPT
                   !.op = "list_directory",
                   !.out = listDirectory(sandbox.tree, sandbox.recursive)]
  /\ UNCHANGED <<loopVars, adapter, bus, files, shell, validation>>

ListSpec == ListInit /\ [][ListDirectory]_vars

(* ---------------------------- write and edit ---------------------------- *)
(* One write_file or edit_file call on one target file.  A content is the    *)
(* sequence of its characters; Absent stands for a file that does not exist. *)
(* One action is one file-system operation the tool awaits; the process can  *)
(* be killed between any two of them and while a copy is under way.          *)

MaxContent == 3
MaxString == 2

FileChars == {"a", "b"}

Absent == <<"absent">>

Contents == UNION {[1..n -> FileChars] : n \in 0..MaxContent}

Strings == UNION {[1..n -> FileChars] : n \in 0..MaxString}

\* content.indexOf(oldStr, searchFrom): -1 when there is no match; an empty
\* oldStr matches at searchFrom itself
indexOf(content, oldStr, searchFrom) ==
  LET at == {idx \in searchFrom..(Len(content) - Len(oldStr)) :
               SubSeq(content, idx + 1, idx + Len(oldStr)) = oldStr}
  IN  IF at = {} THEN -1
      ELSE CHOOSE idx \in at : \A other \in at : idx <= other

\* the counting loop of edit_file; -1 stands for the loop that never ends,
\* which is the case when a match does not move searchFrom forward
RECURSIVE countLoop(_, _, _, _)
countLoop(content, oldStr, searchFrom, count) ==
  LET idx == indexOf(content, oldStr, searchFrom)
  IN  IF idx = -1 THEN count
      ELSE IF idx + Len(oldStr) = searchFrom THEN -1
      ELSE countLoop(content, oldStr, idx + Len(oldStr), count + 1)

\* content.replace(oldStr, newStr) for strings without replacement patterns
replaceFirst(content, oldStr, newStr) ==
  LET idx == indexOf(content, oldStr, 0)
  IN  IF idx = -1 THEN content
      ELSE SubSeq(content, 1, idx) \o newStr
           \o SubSeq(content, idx + Len(oldStr) + 1, Len(content))

fileError(why) == [isError |-> TRUE, content |-> why]

fileDone(what) == [isError |-> FALSE, content |-> what]

\* a call that has not been made on a target with the given content
NoCall(target) ==
  [op |-> "none", pc |-> "idle", target |-> target, before |-> target,
   tmp |-> Absent, oldStr |-> <<>>, newStr |-> <<>>, newContent |-> <<>>,
   out |-> fileDone("none")]

\* editFileTool.execute up to its first write: the checks, the read, the
\* count and the new content
editStart(f, oldStr, newStr) ==
  LET call == [f EXCEPT !.op = "edit_file", !.oldStr = oldStr, !.newStr = newStr]
      count == countLoop(f.target, oldStr, 0, 0)
  IN  IF oldStr = newStr
      THEN [call EXCEPT !.pc = "returned", !.out = fileError("identical")]
      ELSE IF f.target = Absent
      THEN [call EXCEPT !.pc = "returned", !.out = fileError("File not found")]
      ELSE IF count = -1 THEN [call EXCEPT !.pc = "hung"]
      ELSE IF count = 0
      THEN [call EXCEPT !.pc = "returned", !.out = fileError("String not found")]
      ELSE IF count > 1
      THEN [call EXCEPT !.pc = "returned", !.out = fileError("Found occurrences")]
      ELSE [call EXCEPT !.pc = "writeFile",
                        !.newContent = replaceFirst(f.target, oldStr, newStr)]

\* writeFileTool.execute up to its first write
writeStart(f, content) ==
  [f EXCEPT !.op = "write_file", !.pc = "writeFile", !.newContent = content]

\* the catch block around the file operations
ioError(f) ==
  [f EXCEPT !.pc = "returned",
            !.out = fileError(IF f.op = "edit_file" THEN "Error editing file"
                              ELSE "Error writing file")]

\* fs.copyFile(tmpPath, safePath) under way: the target holds the first n
\* characters of the new content
copyWrites(f, n) == [f EXCEPT !.target = SubSeq(f.newContent, 1, n)]

FilesInit ==
  /\ LoopInit
  /\ confirmDestructive
  /\ adapter = AdapterIdle
  /\ bus = BusIdle
  /\ sandbox = NotRun
  /\ shell = NotRun
  /\ validation = NotRun
  /\ \E target \in Contents \cup {Absent} : files = NoCall(target)

\* the loop awaits edit_file's execute
EditFile ==
  /\ files.op = "none"
  /\ \E oldStr \in Strings, newStr \in Strings :
       files' = editStart(files, oldStr, newStr)
  /\ UNCHANGED <<loopVars, adapter, bus, sandbox, shell, validation>>

\* the loop awaits write_file's execute
WriteFile ==
  /\ files.op = "none"
  /\ \E content \in Contents : files' = writeStart(files, content)
  /\ UNCHANGED <<loopVars, adapter, bus, sandbox, shell, validation>>

\* fs.writeFile(tmpPath, newContent) settles
TmpWritten ==
  /\ files.pc = "writeFile"
  /\ \/ files' = [files EXCEPT !.tmp = files.newContent, !.pc = "rename"]
     \/ files' = ioError(files)
  /\ UNCHANGED <<loopVars, adapter, bus, sandbox, shell, validation>>

\* fs.rename(tmpPath, safePath) settles: done, or refused (the temp directory
\* is on another device) so that the copy starts
Renamed ==
  /\ files.pc = "rename"
  /\ \/ files' = [files EXCEPT !.target = files.tmp, !.tmp = Absent,
                               !.pc = "returned",
                               !.out = fileDone(IF files.op = "edit_file"
                                                THEN "Edited" ELSE "Written")]
     \/ files' = [files EXCEPT !.pc = "copyFile"]
  /\ UNCHANGED <<loopVars, adapter, bus, sandbox, shell, validation>>

\* the copy opens the target, which empties it, and writes some of it
CopyWrites ==
  /\ files.pc = "copyFile"
  /\ \E n \in 0..Len(files.newContent) :
       /\ files.target = Absent \/ files.target = files.before
            \/ n > Len(files.target)
       /\ files' = copyWrites(files, n)
  /\ UNCHANGED <<loopVars, adapter, bus, sandbox, shell, validation>>

\* fs.copyFile settles: done, or failed with the target as the copy left it
Copied ==
  /\ files.pc = "copyFile"
  /\ \/ files' = [files EXCEPT !.target = files.newContent, !.pc = "unlink"]
     \/ files' = ioError(files)
  /\ UNCHANGED <<loopVars, adapter, bus, sandbox, shell, validation>>

\* fs.unlink(tmpPath) settles, its failure ignored
Unlinked ==
  /\ files.pc = "unlink"
  /\ \E gone \in BOOLEAN :
       files' = [files EXCEPT !.tmp = IF gone THEN Absent ELSE @,
                              !.pc = "returned",
                              !.out = fileDone(IF files.op = "edit_file"
                                               THEN "Edited" ELSE "Written")]
  /\ UNCHANGED <<loopVars, adapter, bus, sandbox, shell, validation>>

\* the process is killed after the temp file has been created
Killed ==
  /\ files.pc \in {"rename", "copyFile", "unlink"}
  /\ files' = [files EXCEPT !.pc = "killed"]
  /\ UNCHANGED <<loopVars, adapter, bus, sandbox, shell, validation>>

FilesNext ==
  \/ EditFile
  \/ WriteFile
  \/ TmpWritten
  \/ Renamed
  \/ CopyWrites
  \/ Copied
  \/ Unlinked
  \/ Killed

FilesSpec == FilesInit /\ [][FilesNext]_vars

(* --------------------------------- bash --------------------------------- *)
(* One bash call: the blocklist, the subprocess and the two timers.  A       *)
(* command is the sequence of its characters.  A regular expression is a     *)
(* tree: a character class, a sequence, an alternative, a repetition, a word *)
(* boundary or the end of the string.                                        *)

DEFAULT_TIMEOUT == 120000

ShortTimeout == 50

Lowers == <<"a", "b", "c", "d", "e", "f", "g", "h", "i", "j", "k", "l", "m", "n", "o", "p", "q", "r", "s", "t", "u", "v", "w", "x", "y", "z">>

Uppers == <<"A", "B", "C", "D", "E", "F", "G", "H", "I", "J", "K", "L", "M", "N", "O", "P", "Q", "R", "S", "T", "U", "V", "W", "X", "Y", "Z">>

Letters == {Lowers[i] : i \in DOMAIN Lowers}

Digits == {"0", "1", "2", "3", "4", "5", "6", "7", "8", "9"}

Blanks == {" ", "\t"}

Symbols == {"/", "-", "|", "&", ">", "=", ":", "(", ")", "{", "}", ";", "_"}

\* the characters of \w
WordChars == Letters \cup {Uppers[i] : i \in DOMAIN Uppers} \cup Digits \cup {"_"}

\* the characters "." stands for
AnyChar == WordChars \cup Blanks \cup Symbols

\* String.prototype.toLowerCase, one character
lowerChar(c) ==
  IF \E i \in DOMAIN Uppers : Uppers[i] = c
  THEN Lowers[CHOOSE i \in DOMAIN Uppers : Uppers[i] = c]
  ELSE c

toLowerCase(str) == [i \in DOMAIN str |-> lowerChar(str[i])]

\* String.prototype.trim
RECURSIVE trim(_)
trim(str) ==
  IF str = <<>> THEN str
  ELSE IF Head(str) \in Blanks THEN trim(Tail(str))
  ELSE IF str[Len(str)] \in Blanks THEN trim(SubSeq(str, 1, Len(str) - 1))
  ELSE str

Cls(cs) == [t |-> "cls", cs |-> cs]

Cat(rs) == [t |-> "seq", rs |-> rs]

Alt(rs) == [t |-> "alt", rs |-> rs]

Star(r) == [t |-> "star", r |-> r]

Plus(r) == Cat(<<r, Star(r)>>)

Opt(r) == Alt(<<r, Cat(<<>>)>>)

Lit(str) == Cat([i \in DOMAIN str |-> Cls({str[i]})])

WordBoundary == [t |-> "b"]

EndOfString == [t |-> "end"]

Blank == Cls(Blanks)

Dots == Star(Cls(AnyChar))

AtRootEnd == Cat(<<Lit(<<"/">>), Alt(<<EndOfString, Blank>>)>>)

Shells == Alt(<<Lit(<<"b", "a", "s", "h">>), Lit(<<"s", "h">>), Lit(<<"z", "s", "h">>)>>)

\* the positions where a match of re that starts at a position of from ends
RECURSIVE ends(_, _, _)
ends(re, str, from) ==
  IF re.t = "cls"
  THEN {p + 1 : p \in {f \in from : f < Len(str) /\ str[f + 1] \in re.cs}}
  ELSE IF re.t = "seq"
  THEN IF re.rs = <<>> THEN from
       ELSE ends(Cat(Tail(re.rs)), str, ends(Head(re.rs), str, from))
  ELSE IF re.t = "alt"
  THEN UNION {ends(re.rs[i], str, from) : i \in DOMAIN re.rs}
  ELSE IF re.t = "star"
  THEN LET more == from \cup ends(re.r, str, from)
       IN  IF more = from THEN from ELSE ends(re, str, more)
  ELSE IF re.t = "b"
  THEN {p \in from : (p >= 1 /\ str[p] \in WordChars)
                       # (p < Len(str) /\ str[p + 1] \in WordChars)}
  ELSE {p \in from : p = Len(str)}

\* pattern.test(str)
test(pattern, str) == ends(pattern, str, 0..Len(str)) # {}

destructive ==
  << [pattern |-> Cat(<<WordBoundary, Lit(<<"r", "m">>), Plus(Blank),
                        Opt(Cat(<<Lit(<<"-">>), Star(Cls(Letters)), Lit(<<"f">>),
                                  Star(Cls(Letters)), Plus(Blank)>>)),
                        AtRootEnd>>),
      reason |-> "rm at filesystem root"],
     [pattern |-> Cat(<<WordBoundary, Lit(<<"m", "k", "f", "s">>), WordBoundary>>),
      reason |-> "filesystem formatting"],
     [pattern |-> Cat(<<WordBoundary, Lit(<<"d", "d">>), Plus(Blank), Dots, WordBoundary,
                        Lit(<<"o", "f", "=", "/", "d", "e", "v", "/">>)>>),
      reason |-> "raw device write"],
     [pattern |-> Cat(<<Lit(<<":", "(", ")", "{">>), Dots, Lit(<<"|">>), Dots, Lit(<<"&">>),
                        Dots, Lit(<<"}", ";", ":">>)>>),
      reason |-> "fork bomb"],
     [pattern |-> Cat(<<WordBoundary,
                        Alt(<<Lit(<<"s", "h", "u", "t", "d", "o", "w", "n">>), Lit(<<"r", "e", "b", "o", "o", "t">>), Lit(<<"h", "a", "l", "t">>),
                              Lit(<<"p", "o", "w", "e", "r", "o", "f", "f">>)>>),
                        WordBoundary>>),
      reason |-> "system power control"],
     [pattern |-> Cat(<<Lit(<<">">>), Star(Blank), Lit(<<"/", "d", "e", "v", "/", "s", "d">>), Cls(Letters)>>),
      reason |-> "raw device write"],
     [pattern |-> Cat(<<Lit(<<">">>), Star(Blank), Lit(<<"/", "d", "e", "v", "/", "n", "v", "m", "e">>)>>),
      reason |-> "raw device write"],
     [pattern |-> Cat(<<WordBoundary, Lit(<<"c", "h", "m", "o", "d">>), Plus(Blank),
                        Opt(Cat(<<Lit(<<"-", "R">>), Plus(Blank)>>)),
                        Star(Cls({"0", "1", "2", "3", "4", "5", "6", "7"})),
                        Plus(Blank), AtRootEnd>>),
      reason |-> "recursive permission change at root"],
     [pattern |-> Cat(<<WordBoundary, Lit(<<"c", "h", "o", "w", "n">>), Plus(Blank),
                        Opt(Cat(<<Lit(<<"-", "R">>), Plus(Blank)>>)),
                        Dots, Plus(Blank), AtRootEnd>>),
      reason |-> "recursive ownership change at root"],
     [pattern |-> Cat(<<WordBoundary, Lit(<<"c", "u", "r", "l">>), Blank, Dots, Lit(<<"|">>),
                        Star(Blank), Shells>>),
      reason |-> "pipe remote script to shell"],
     [pattern |-> Cat(<<WordBoundary, Lit(<<"w", "g", "e", "t">>), Blank, Dots, Lit(<<"|">>),
                        Star(Blank), Shells>>),
      reason |-> "pipe remote script to shell"] >>

\* null of isBlockedCommand
NotBlocked == "null"

\* isBlockedCommand that lets every command through
isBlockedCommand_allowsAll(command) == NotBlocked

\* isBlockedCommand: the reason of the first pattern that matches
isBlockedCommand(command) ==
  LET normalized == trim(toLowerCase(command))
      hits == {i \in DOMAIN destructive : test(destructive[i].pattern, normalized)}
  IN  IF hits = {} THEN NotBlocked
      ELSE destructive[CHOOSE i \in hits : \A j \in hits : i <= j].reason

ChmodRoot == <<"c", "h", "m", "o", "d", " ", "-", "R", " ", "7", " ", "/">>

ChownRoot == <<"c", "h", "o", "w", "n", " ", "-", "R", " ", "a", " ", "/">>

RmRoot == <<"r", "m", " ", "-", "r", "f", " ", "/">>

EchoGrep == <<"e", "c", "h", "o", " ", "h", "i", " ", "|", " ", "g", "r", "e", "p", " ", "h">>

Commands ==
  { RmRoot, EchoGrep,
    <<" ", "R", "M", " ", "-", "F", " ", "/", " ">>,
    <<"r", "m", " ", "-", "r", "f", " ", "/", "t", "m", "p">>,
    <<"r", "e", "b", "o", "o", "t">>,
    <<"l", "s">>,
    <<"c", "u", "r", "l", " ", "x", " ", "|", " ", "s", "h">>,
    ChmodRoot,
    <<"C", "H", "M", "O", "D", " ", "-", "r", " ", "7", " ", "/">>,
    ChownRoot,
    <<"C", "h", "o", "w", "n", " ", "-", "R", " ", "a", " ", "/">> }

Signals == {"SIGTERM", "SIGKILL"}

\* the exit code null of a subprocess that has not exited or was ended by a
\* signal
NullCode == -1

\* no bash call yet
NoProc ==
  [op |-> "none", pc |-> "idle", command |-> <<>>, timeout |-> 0,
   spawned |-> 0, proc |-> "none", procKilled |-> FALSE, killed |-> FALSE,
   killTimer |-> "unset", forceKillTimer |-> "unset", sent |-> {},
   termCase |-> "none", graceCase |-> "none",
   exit |-> [code |-> NullCode, signal |-> "none"],
   out |-> [isError |-> FALSE, content |-> "none", timedOut |-> FALSE]]

\* clearTimeout(timer)
clearTimeout(timer) == IF timer = "armed" THEN "cleared" ELSE timer

\* proc.kill(signal): the signal reaches a subprocess that has not exited,
\* and proc.killed is set when it has been sent
procKill(sh, signal) ==
  IF sh.proc = "running"
  THEN [sh EXCEPT !.procKilled = TRUE, !.sent = @ \cup {signal}]
  ELSE sh

\* bashTool.execute up to the end of the promise executor; started says
\* whether the subprocess could be started
execute(sh, command, timeoutInput, started) ==
  LET timeout == IF timeoutInput = 0 THEN DEFAULT_TIMEOUT ELSE timeoutInput
      blocked == isBlockedCommand(command)
      call    == [sh EXCEPT !.op = "bash", !.command = command,
                            !.timeout = timeout]
  IN  IF blocked # NotBlocked
      THEN [call EXCEPT !.pc = "returned",
                        !.out = [isError |-> TRUE, content |-> blocked,
                                 timedOut |-> FALSE]]
      ELSE [call EXCEPT !.pc = "waiting",
                        !.spawned = @ + 1,
                        !.proc = IF started THEN "running" ELSE "failed",
                        !.killTimer = "armed"]

\* the callback of killTimer
killTimerCallback(sh) ==
  LET fired == [sh EXCEPT !.killTimer = "fired", !.termCase = sh.proc]
  IN  IF ~sh.procKilled
      THEN [procKill([fired EXCEPT !.killed = TRUE], "SIGTERM")
              EXCEPT !.forceKillTimer = "armed"]
      ELSE fired

\* the callback of forceKillTimer
forceKillTimerCallback(sh) ==
  LET fired == [sh EXCEPT !.forceKillTimer = "fired", !.graceCase = sh.proc]
  IN  IF ~sh.procKilled THEN procKill(fired, "SIGKILL") ELSE fired

\* proc.on('error')
onError(sh) ==
  [sh EXCEPT !.killTimer = clearTimeout(@),
             !.forceKillTimer = clearTimeout(@),
             !.pc = "returned",
             !.out = [isError |-> TRUE, content |-> "Failed to execute",
                      timedOut |-> FALSE]]

\* proc.on('close')
onClose(sh) ==
  [sh EXCEPT !.killTimer = clearTimeout(@),
             !.forceKillTimer = clearTimeout(@),
             !.pc = "returned",
             !.out = [isError |-> sh.exit.code # 0, content |-> "output",
                      timedOut |-> sh.exit.signal = "SIGTERM" \/ sh.killed]]

ShellInit ==
  /\ LoopInit
  /\ confirmDestructive
  /\ adapter = AdapterIdle
  /\ bus = BusIdle
  /\ sandbox = NotRun
  /\ files = NotRun
  /\ validation = NotRun
  /\ shell = NoProc

\* the loop awaits bash's execute
Bash ==
  /\ shell.op = "none"
  /\ \E command \in Commands, timeoutInput \in {0, ShortTimeout},
        started \in BOOLEAN :
       shell' = execute(shell, command, timeoutInput, started)
  /\ UNCHANGED <<loopVars, adapter, bus, sandbox, files, validation>>

\* the subprocess could not be started
ErrorEvent ==
  /\ shell.pc = "waiting"
  /\ shell.proc = "failed"
  /\ shell' = onError(shell)
  /\ UNCHANGED <<loopVars, adapter, bus, sandbox, files, validation>>

\* timeout milliseconds have passed since the spawn
KillTimerFires ==
  /\ shell.pc = "waiting"
  /\ shell.proc # "failed"
  /\ shell.killTimer = "armed"
  /\ shell' = killTimerCallback(shell)
  /\ UNCHANGED <<loopVars, adapter, bus, sandbox, files, validation>>

\* 5000 milliseconds have passed since the callback of killTimer
ForceKillTimerFires ==
  /\ shell.pc = "waiting"
  /\ shell.forceKillTimer = "armed"
  /\ shell' = forceKillTimerCallback(shell)
  /\ UNCHANGED <<loopVars, adapter, bus, sandbox, files, validation>>

\* the subprocess exits, by itself or by a signal it was sent
ProcExits ==
  /\ shell.proc = "running"
  /\ \E exit \in [code : {0, 1}, signal : {"none"}]
                   \cup [code : {NullCode}, signal : shell.sent] :
       shell' = [shell EXCEPT !.proc = "exited", !.exit = exit]
  /\ UNCHANGED <<loopVars, adapter, bus, sandbox, files, validation>>

\* the subprocess has exited and its output streams are closed
CloseEvent ==
  /\ shell.pc = "waiting"
  /\ shell.proc = "exited"
  /\ shell' = onClose(shell)
  /\ UNCHANGED <<loopVars, adapter, bus, sandbox, files, validation>>

ShellNext ==
  \/ Bash
  \/ ErrorEvent
  \/ KillTimerFires
  \/ ForceKillTimerFires
  \/ ProcExits
  \/ CloseEvent

ShellSpec == ShellInit /\ [][ShellNext]_vars

(* ------------------------------ validation ------------------------------ *)
(* One validateToolInput call on a tool schema and an input drawn from       *)
(* bounded sets.  An input maps each field it holds to the typeof of its     *)
(* value, or to "null" or "undefined" for these two values.                  *)

MaxFields == 2

SchemaFields == {"path", "content"}

InputFields == SchemaFields \cup {"extra"}

\* the type a property declares; "none" is a property schema without a type
DeclaredTypes == {"string", "number", "boolean", "array", "none"}

\* typeof of a value, null and undefined apart
ValueTypes == {"string", "number", "boolean", "object", "null", "undefined"}

Schemas ==
  {[name |-> "tool", properties |-> p, required |-> r,
    requiresConfirmation |-> FALSE] :
     p \in UNION {[d -> DeclaredTypes] : d \in SUBSET SchemaFields},
     r \in SUBSET SchemaFields}

Inputs ==
  UNION {[d -> ValueTypes] :
           d \in {fs \in SUBSET InputFields : Cardinality(fs) <= MaxFields}}

ValidationInit ==
  /\ LoopInit
  /\ confirmDestructive
  /\ adapter = AdapterIdle
  /\ bus = BusIdle
  /\ sandbox = NotRun
  /\ files = NotRun
  /\ shell = NotRun
  /\ \E tool \in Schemas, input \in Inputs :
       validation = [op |-> "none", tool |-> tool, input |-> input,
                     valid |-> FALSE,
                     errors |-> [missing |-> {}, mistyped |-> {}]]

\* the loop calls validateToolInput(tool, input)
ValidateToolInput ==
  /\ validation.op = "none"
  /\ validation' = [validation EXCEPT
       !.op = "validateToolInput",
       !.valid = validateToolInput(validation.tool, validation.input),
       !.errors = validationErrors(validation.tool, validation.input)]
  /\ UNCHANGED <<loopVars, adapter, bus, sandbox, files, shell>>

ValidationNext == ValidateToolInput

ValidationSpec == ValidationInit /\ [][ValidationNext]_vars

TypeOK ==
  /\ state \in LoopStates
  /\ abortController \in 0..MaxInv
  /\ accepted \in 0..MaxInv

(* ------------------------------ claims --------------------------------- *)

\* the processMessage invocations that were accepted and have not returned
InProgress == {i \in Invs : inv[i].pc \notin {"none", "done"}}

\* the places of the events of one type among those the last step published
Published(type) == {n \in 1..Len(emitted) : emitted[n].type = type}

\* every toolId a call can carry
ToolIds == {<<i, t, k>> : i \in Invs, t \in 1..maxTurns, k \in 1..MaxTools}

\* the call's trace holds a tool:approved delivered after the approval request
approvedAfterRequest(t) ==
  \E a \in 1..Len(t), b \in 1..Len(t) :
    a < b /\ t[a] = "approval_required" /\ t[b] = "approved"

\* C1: tool.execute is invoked only for a registered tool whose input passed
\* validateToolInput and, when the tool requires confirmation and
\* confirmDestructive is set, only after a tool:approved event with the call's
\* toolId was delivered after the approval request and resolved the wait as
\* approved; the results for an unknown tool, an invalid input and a wait
\* resolved as denied (by tool:denied or by cancel) carry isError = true and
\* their tool.execute was not invoked.
C1_ExecuteOnlyWhenCleared ==
  /\ \A i \in Invs :
       inv[i].pc = "race" =>
         LET call == CurCall(Cur, i)
         IN  /\ toolMap(call.name) # {}
             /\ \A tool \in toolMap(call.name) :
                  /\ validateToolInput(tool, call.input)
                  /\ (tool.requiresConfirmation /\ confirmDestructive) =>
                       /\ approvedAfterRequest(trace[i])
                       /\ inv[i].approval = "approved"
                       /\ ~Has(trace[i], "cancel")
  /\ \A n \in Published("tool:complete") :
       emitted[n].info \in {"unknown_tool", "invalid_input", "denied"} =>
         /\ emitted[n].flag
         /\ emitted[n].toolId \notin running

\* C1 witness: a confirmation-requiring tool runs after its approval
C1_ApprovedToolRuns ==
  \E i \in Invs :
    /\ inv[i].pc = "race"
    /\ CurCall(Cur, i).name = "write_file"
    /\ confirmDestructive
    /\ Has(trace[i], "approved")

\* C2: at most one processMessage invocation is in progress (accepted and
\* not yet returned) at any time.
C2_OneInvocationInProgress == Cardinality(InProgress) <= 1

\* C3: the loop is always in one of its five states, and processMessage
\* called while the state is not idle publishes exactly one agent:error with
\* recoverable = true and changes nothing else: history, usage, state and
\* every invocation in flight stay as they were.
C3_BusyRejectChangesNothing ==
  /\ state \in LoopStates
  /\ state # "idle" =>
       \A chars \in UserChars :
         processMessage(Cur, chars) =
           [Cur EXCEPT !.emitted = <<agentError("busy", TRUE)>>]

\* C3 witness: a processMessage call has just been rejected
C3_RejectedWhileBusy ==
  /\ state # "idle"
  /\ emitted = <<agentError("busy", TRUE)>>
  /\ history # <<>>

\* the last two messages of h are an assistant message and a wrapper whose
\* tool_result blocks answer the assistant's tool_use blocks one for one, in
\* order
ResultsAnswerUses(h) ==
  /\ Len(h) >= 2
  /\ LET a == h[Len(h) - 1]
         w == h[Len(h)]
         uses == SelectSeq(a.blocks, LAMBDA b : b.type = "tool_use")
         results == SelectSeq(w.blocks, LAMBDA b : b.type = "tool_result")
     IN  /\ a.role = "assistant"
         /\ w.role = "user"
         /\ ~w.plain
         /\ Len(uses) = Len(results)
         /\ \A n \in 1..Len(uses) : uses[n].id = results[n].toolCallId

\* C4: whenever an invocation starts a model call other than its first, the
\* last two history messages are the assistant message and the wrapper that
\* holds exactly one tool_result per tool_use, in the same order.
C4_ResultsBeforeNextModelCall ==
  \A n \in Published("agent:thinking") :
    emitted[n].toolId[2] >= 1 => ResultsAnswerUses(history)

\* C5: at most one tool.execute call started by the loop is still running at
\* any time, also after a timeout has fired and the loop has moved on.
C5_OneToolRunning == Cardinality(running) <= 1

completesOf(events, id) ==
  Cardinality({n \in 1..Len(events) :
                 events[n].type = "tool:complete" /\ events[n].toolId = id})

executingOf(events, id) ==
  Cardinality({n \in 1..Len(events) :
                 events[n].type = "tool:executing" /\ events[n].toolId = id})

C7_CancelAbortsAndResolves ==
  LET r == cancel(Cur)
  IN  /\ r.state = "idle"
      /\ \A i \in Invs : inv[i].pc = "stream" => i \in r.aborted
      /\ r.pendingApproval = NoId
      /\ \A i \in Invs : inv[i].pc = "approval" => r.inv[i].approval # "pending"
      /\ (state = "idle" /\ InProgress = {}) =>
           /\ r.history = history
           /\ r.totalTokensIn = totalTokensIn
           /\ r.totalTokensOut = totalTokensOut
           /\ r.emitted = <<>>

\* a decision event with the call's toolId was published after its request
decided(t) == Has(t, "approved") \/ Has(t, "denied")

\* C8: an accepted invocation that has not returned still has something to
\* be answered: a provider stream that has not ended, a tool that has neither
\* returned nor timed out, an approval request that has received no decision,
\* or a settled approval it is about to take up; and with no invocation in
\* progress anymore the state is idle.
C8_AnsweredInvocationReturns ==
  /\ \A i \in InProgress :
       \/ inv[i].pc = "stream"
       \/ inv[i].pc = "race"
       \/ inv[i].pc = "approval" /\ inv[i].approval \in {"approved", "denied"}
       \/ inv[i].pc = "approval" /\ ~decided(trace[i])
  /\ (accepted > 0 /\ InProgress = {}) => state = "idle"

\* the first of the decisions a call's trace holds
firstDecision(t) ==
  LET d == SelectSeq(t, LAMBDA m : m \in {"approved", "denied", "cancel"})
  IN  IF d = <<>> THEN "none" ELSE Head(d)

\* C9: once tool:approval_required was published for a call, the first
\* tool:approved or tool:denied event with the same toolId published after it,
\* also from inside a handler of the request, ends the wait with that outcome;
\* without one (decisions for other toolIds do not count) the wait goes on.
C9_DecisionEndsWait ==
  \A i \in Invs :
    inv[i].pc = "approval" =>
      inv[i].approval =
        (CASE firstDecision(trace[i]) = "none" -> "pending"
           [] firstDecision(trace[i]) = "approved" -> "approved"
           [] OTHER -> "denied")

\* the invocations whose approval request is still undecided
Undecided == {i \in Invs : inv[i].pc = "approval" /\ inv[i].approval = "pending"}

\* C10: at most one approval is outstanding, and the slot holds it: no
\* undecided approval has had its slot entry overwritten by a later request.
C10_SinglePendingApproval ==
  /\ Cardinality(Undecided) <= 1
  /\ \A i \in Undecided : pendingApproval = CurId(Cur, i)

\* the max-turns errors among the events the last step published
ceilingErrors ==
  {n \in Published("agent:error") : emitted[n].info = "max_turns"}

\* invocation i has returned in the last step, and that step finished a tool
\* call of its turn number maxTurns: each of its maxTurns model calls
\* returned at least one tool call
hitCeiling(i) ==
  /\ inv[i].pc = "done"
  /\ \E n \in Published("tool:complete") :
       emitted[n].toolId[1] = i /\ emitted[n].toolId[2] = maxTurns

\* message m of turn t of invocation i: an assistant message with at least
\* one tool_use block, all of that turn
isTurnAssistant(m, i, t) ==
  /\ m.role = "assistant"
  /\ \E n \in 1..Len(m.blocks) : m.blocks[n].type = "tool_use"
  /\ \A n \in 1..Len(m.blocks) :
       m.blocks[n].type = "tool_use" =>
         m.blocks[n].id[1] = i /\ m.blocks[n].id[2] = t

\* C11: with a caller that lets processMessage run to its return, when an
\* invocation returns after maxTurns responses that each held a tool call,
\* the state is idle, the max-turns agent:error (recoverable = true) was
\* published exactly once, and the history ends with the invocation's user
\* message followed by exactly maxTurns pairs of an assistant message (one
\* per model call, turns 1..maxTurns) and its tool-result wrapper.
C11_TurnCeiling ==
  \A i \in Invs :
    hitCeiling(i) =>
      /\ state = "idle"
      /\ Cardinality(ceilingErrors) = 1
      /\ \A n \in ceilingErrors : emitted[n].flag
      /\ Len(history) >= 2 * maxTurns + 1
      /\ LET base == Len(history) - 2 * maxTurns
         IN  /\ history[base].role = "user" /\ history[base].plain
             /\ \A t \in 1..maxTurns :
                  /\ isTurnAssistant(history[base + 2 * t - 1], i, t)
                  /\ ResultsAnswerUses(SubSeq(history, 1, base + 2 * t))

\* C11 witness: an invocation has just returned at the turn ceiling
C11_CeilingReached ==
  \E i \in Invs : hitCeiling(i) /\ ceilingErrors # {}

\* the content of the results of tool-level failures
ToolFailures ==
  {"unknown_tool", "invalid_input", "denied", "timeout", "tool_error",
   "tool_reported_error"}

\* q is a prefix of r, comparing the fields the history keeps
storedPrefix(q, r) ==
  /\ Len(q) <= Len(r)
  /\ \A n \in 1..Len(q) : stored(q[n]) = stored(r[n])

C13_TerminalEventIsLast ==
  \A n \in DOMAIN adapter.events :
    adapter.events[n].type \in {"done", "error"} => n = Len(adapter.events)

\* a native stream that failed after it had yielded events, and a generic
\* stream that ended with done after a completed tool call
C13_StreamsEnded ==
  /\ adapter.apc = "ended"
  /\ Len(adapter.events) >= 2
  /\ \/ /\ adapter.family = "native"
        /\ adapter.events[Len(adapter.events)].type = "error"
     \/ /\ adapter.family = "generic"
        /\ adapter.events[Len(adapter.events)].type = "done"
        /\ adapter.events[Len(adapter.events) - 1].type = "tool_call_end"

\* the number of leading lines of text that lie within its first n characters
RECURSIVE linesWithin(_, _)
linesWithin(text, n) ==
  IF text = <<>> \/ Len(encodeLine(Head(text))) > n THEN 0
  ELSE 1 + linesWithin(Tail(text), n - Len(encodeLine(Head(text))))

\* the argument fragments the deltas of tcs carry for index, in order
RECURSIVE fragmentsIn(_, _)
fragmentsIn(tcs, index) ==
  IF tcs = <<>> THEN <<>>
  ELSE (IF Head(tcs).index = index THEN Head(tcs).arguments ELSE <<>>)
       \o fragmentsIn(Tail(tcs), index)

\* all argument fragments the lines carry for index, in arrival order
RECURSIVE fragmentsOf(_, _)
fragmentsOf(lines, index) ==
  IF lines = <<>> THEN <<>>
  ELSE (IF lineKind(Head(lines)) = "json"
        THEN fragmentsIn(payload(Head(lines)).tool_calls, index) ELSE <<>>)
       \o fragmentsOf(Tail(lines), index)

\* the inputs the tool_call_end events for index must carry after the first
\* n lines: one per finish marker that follows a fragment of the index
RECURSIVE expectedInputs(_, _, _)
expectedInputs(text, n, index) ==
  IF n = 0 THEN <<>>
  ELSE expectedInputs(text, n - 1, index)
       \o (IF /\ text[n] = "finish"
              /\ \E q \in 1..(n - 1) :
                   /\ lineKind(text[q]) = "json"
                   /\ \E k \in DOMAIN payload(text[q]).tool_calls :
                        payload(text[q]).tool_calls[k].index = index
           THEN <<parseArgs(fragmentsOf(SubSeq(text, 1, n), index))>>
           ELSE <<>>)

\* the inputs of the tool_call_end events yielded for the call named id
RECURSIVE endInputs(_, _)
endInputs(events, id) ==
  IF events = <<>> THEN <<>>
  ELSE (IF Head(events).type = "tool_call_end" /\ Head(events).id = id
        THEN <<Head(events).input>> ELSE <<>>)
       \o endInputs(Tail(events), id)

C15_AbortHandledAsCancellation ==
  (adapter.aborted /\ streamError(adapter) # NoErr) =>
    LET handled == callModelCatch(streamError(adapter))
    IN  /\ handled.message = <<"Request", "cancelled.">>
        /\ handled.recoverable
        /\ handled.state = "idle"
        /\ handled.branch = "cancelled"

\* the handlers the last emit invoked for its own event, in order
RECURSIVE invokedAt(_, _)
invokedAt(calls, depth) ==
  IF calls = <<>> THEN <<>>
  ELSE (IF Head(calls).depth = depth THEN <<Head(calls).handler>> ELSE <<>>)
       \o invokedAt(Tail(calls), depth)

\* the number of handler invocations of the last emit that threw
RECURSIVE thrownIn(_)
thrownIn(calls) ==
  IF calls = <<>> THEN 0
  ELSE (IF Head(calls).handler = "throws" THEN 1 ELSE 0) + thrownIn(Tail(calls))

C17_FailuresBecomeSystemErrors ==
  bus.root # "none" =>
    /\ ~bus.threw
    /\ Len(bus.published) = 1 + thrownIn(bus.calls)
    /\ \A n \in 2..Len(bus.published) : bus.published[n].type = "system:error"
    /\ invokedAt(bus.calls, 0) = bus.registered

\* C18: no emit ends by using up the call stack in a chain of system:error
\* publications nested in one another.
C18_ErrorChainEnds == ~bus.threw

\* the events of one type among those the last step published
eventsOf(type) == SelectSeq(emitted, LAMBDA e : e.type = type)

\* C19: an accepted processMessage leaves the anchor history[0] in place and
\* keeps the user message it has just appended as the last message, whatever
\* trimContextIfNeeded removes.
C19_AnchorAndNewestKept ==
  [][accepted' = accepted + 1 =>
       LET new == history'[Len(history')]
           h == Append(history, new)
       IN  /\ new.role = "user" /\ new.plain /\ new.chars \in TrimChars
           /\ history'[1] = h[1]
           /\ \E k \in 0..(Len(h) - 1) :
                history' = <<h[1]>> \o SubSeq(h, k + 2, Len(h))]_vars

\* a trim that removed three messages and left the anchor and the new message
C19_TrimmedToAnchorAndNewest ==
  /\ accepted = 1
  /\ Len(history) = 2
  /\ history[1] = userMessage(8)
  /\ history[2] = userMessage(120)
  /\ Len(eventsOf("session:context_trimmed")) = 1
  /\ eventsOf("session:context_trimmed")[1].n = 3

\* what C20 says of one accepted processMessage, with the message counts at
\* which a total above 80% may remain
trimmedTo(few) ==
  accepted' = accepted + 1 =>
    LET new == history'[Len(history')]
        h == Append(history, new)
        trimmed == eventsOf("session:context_trimmed")'
    IN  IF totalTokens(h) > contextWindowTokens
        THEN \E k \in 0..(Len(h) - 1) :
               /\ history' = <<h[1]>> \o SubSeq(h, k + 2, Len(h))
               /\ \/ totalTokens(history') * 10 <= contextWindowTokens * 8
                  \/ Len(history') \in few
               /\ IF k > 0
                  THEN Len(trimmed) = 1 /\ trimmed[1].n = k
                  ELSE trimmed = <<>>
        ELSE history' = h /\ trimmed = <<>>

\* C20: when the estimated total is above contextWindowTokens,
\* trimContextIfNeeded removes the oldest messages after the anchor, and the
\* total that remains is at most 80% of contextWindowTokens unless two
\* messages or fewer remain; session:context_trimmed is published exactly
\* when a message was removed, with the number removed.
C20_TrimmedUnlessTwoOrFewer == [][trimmedTo({1, 2})]_vars

\* the same with the exception the statement names: exactly two messages
C20_TrimmedUnlessTwo == [][trimmedTo({2})]_vars

\* a trim that removed two messages and stopped under 80% with three left
C20_TrimmedUnderBudget ==
  /\ accepted = 1
  /\ Len(history) = 3
  /\ totalTokens(history) * 10 <= contextWindowTokens * 8
  /\ Len(eventsOf("session:context_trimmed")) = 1
  /\ eventsOf("session:context_trimmed")[1].n = 2

\* C21: clearHistory() called in any state returns with an empty history,
\* both token counters at zero and state idle, having published exactly one
\* session:cleared event.
C21_ClearHistoryResets ==
  LET r == clearHistory(Cur)
  IN  /\ Len(r.history) = 0
      /\ r.totalTokensIn = 0
      /\ r.totalTokensOut = 0
      /\ r.state = "idle"
      /\ r.emitted = << Ev("session:cleared") >>

\* clearHistory has returned while an invocation that had used tokens is
\* still in progress
C21_ClearedMidInvocation ==
  /\ emitted = << Ev("session:cleared") >>
  /\ \E i \in InProgress : inv[i].turn >= 1
  /\ history = <<>>
  /\ totalTokensIn = 0
  /\ state = "idle"

\* the path is normalized, absolute, and the root itself or below it, judged
\* segment by segment
insideRoot(root, p) ==
  LET rootSegs == normalizeSegments(splitPath(root, <<>>, <<>>), <<>>)
      segs == normalizeSegments(splitPath(p, <<>>, <<>>), <<>>)
  IN  /\ p = absolute(segs)
      /\ Len(segs) >= Len(rootSegs)
      /\ SubSeq(segs, 1, Len(rootSegs)) = rootSegs

\* C22: resolveSafePath either throws PathTraversalError or returns a
\* normalized absolute path that is the root or lies below it; it never
\* returns a path outside the root, for relative paths, paths with ".."
\* segments and absolute paths alike.
C22_ResolvedPathInsideRoot ==
  sandbox.op = "resolveSafePath" =>
    \/ sandbox.out.threw
    \/ /\ insideRoot(sandbox.root, sandbox.out.path)
       /\ \/ sandbox.out.path = sandbox.root
          \/ startsWith(sandbox.out.path, sandbox.root \o <<"/">>)

\* a path that climbs out of the root /r/r and back in was returned, and so
\* the sibling /rl of the root /r would be a prefix match without separator
C22_ClimbedBackInside ==
  /\ sandbox.op = "resolveSafePath"
  /\ sandbox.root = <<"/", "r", "/", "r">>
  /\ sandbox.inputPath = <<".", ".", "/", "r", "/">>
  /\ sandbox.out = [threw |-> FALSE, path |-> <<"/", "r", "/", "r">>]

\* C23: read_file on a path inside the root that is a symbolic link to a
\* file outside the root returns an error result, never the content of that
\* file.
C23_LinkOutsideRootRejected ==
  sandbox.op = "read_file" =>
    LET safe == resolveSafePath(sandbox.root, sandbox.inputPath)
    IN  (/\ ~safe.threw
         /\ IsLink(safe.path)
         /\ ~insideRoot(sandbox.root, realpath(safe.path)))
        => sandbox.out.isError

\* the number of matches of oldStr in content, counted from the left without
\* overlap; the empty string matches at every position
RECURSIVE occurrences(_, _)
occurrences(content, oldStr) ==
  IF oldStr = <<>> THEN Len(content) + 1
  ELSE IF Len(content) < Len(oldStr) THEN 0
  ELSE IF SubSeq(content, 1, Len(oldStr)) = oldStr
  THEN 1 + occurrences(SubSeq(content, Len(oldStr) + 1, Len(content)), oldStr)
  ELSE occurrences(Tail(content), oldStr)

\* C24: edit_file returns; it succeeds exactly when old_string occurs once
\* in the file and returns an error with zero or with several occurrences;
\* whenever it returns an error the file is as it was before the call.
C24_EditSucceedsIffOneMatch ==
  (files.op = "edit_file" /\ files.before # Absent) =>
    /\ files.pc # "hung"
    /\ files.pc = "returned" =>
         /\ ~files.out.isError <=> occurrences(files.before, files.oldStr) = 1
         /\ files.out.isError => files.target = files.before

\* C25: from the creation of the temp file on, the target of write_file or
\* edit_file holds its old content or the new content and nothing else,
\* wherever the process is killed, on the rename path and on the copy path.
C25_TargetOldOrNew ==
  files.op # "none" => files.target \in {files.before, files.newContent}

\* C26: when the timeout elapses while the subprocess is running it is sent
\* SIGTERM; when the grace period of 5 seconds elapses and the subprocess is
\* still running it is sent SIGKILL; once execute has returned, after close
\* or after a failed start, neither timer is pending.
C26_TermThenKill ==
  /\ shell.termCase = "running" => "SIGTERM" \in shell.sent
  /\ shell.graceCase = "running" => "SIGKILL" \in shell.sent
  /\ shell.pc = "returned" =>
       shell.killTimer # "armed" /\ shell.forceKillTimer # "armed"

\* a pattern of the blocklist matches the command
matchesBlockedPattern(command) ==
  \E i \in DOMAIN destructive :
    test(destructive[i].pattern, trim(toLowerCase(command)))

\* C27: a bash call on a command that matches a blocked pattern, "rm -rf /"
\* among them, has returned an isError result and spawned no subprocess; a
\* call on a command that matches none, "echo hi | grep h" among them, has
\* spawned exactly one subprocess.
C27_BlockedNeverSpawns ==
  shell.op = "bash" =>
    /\ matchesBlockedPattern(shell.command) =>
         shell.pc = "returned" /\ shell.out.isError /\ shell.spawned = 0
    /\ ~matchesBlockedPattern(shell.command) => shell.spawned = 1
    /\ shell.command = RmRoot => shell.out.isError /\ shell.spawned = 0
    /\ shell.command = EchoGrep => shell.spawned = 1

\* "rm -rf /" has been refused
C27_RmRootRefused ==
  /\ shell.op = "bash"
  /\ shell.command = RmRoot
  /\ shell.pc = "returned"
  /\ shell.out.isError
  /\ shell.spawned = 0

\* the fields of the input whose value is there: neither null nor undefined
provided(input) ==
  {f \in DOMAIN input : input[f] # "null" /\ input[f] # "undefined"}

\* the provided fields declared string, number or boolean whose value has
\* another runtime type
mismatches(tool, input) ==
  {f \in provided(input) \cap DOMAIN tool.properties :
     /\ tool.properties[f] \in {"string", "number", "boolean"}
     /\ input[f] # tool.properties[f]}

\* C28: validateToolInput returns valid exactly when every required field is
\* provided and no provided field of a declared primitive type has another
\* runtime type; the result is the same without the undeclared fields; every
\* field with a primitive type mismatch is named in the errors.
C28_ValidExactly ==
  validation.op = "validateToolInput" =>
    LET tool     == validation.tool
        input    == validation.input
        declared == [f \in DOMAIN input \cap (DOMAIN tool.properties
                                               \cup tool.required) |-> input[f]]
    IN  /\ validation.valid <=>
             /\ tool.required \subseteq provided(input)
             /\ mismatches(tool, input) = {}
        /\ validation.valid = validateToolInput(tool, declared)
        /\ mismatches(tool, input) \subseteq validation.errors.mistyped

\* a number where a string is declared, next to an undeclared field
C28_MismatchNamed ==
  /\ validation.op = "validateToolInput"
  /\ "path" \in DOMAIN validation.tool.properties
  /\ validation.tool.properties["path"] = "string"
  /\ validation.input = [f \in {"path", "extra"} |-> "number"]
  /\ ~validation.valid
  /\ validation.errors.mistyped = {"path"}

\* invocation i waits in an approval that cancel() has resolved
CancelledInApproval(i) ==
  /\ inv[i].pc = "approval"
  /\ inv[i].approval = "denied"
  /\ Has(trace[i], "cancel")

\* C29: an invocation whose approval wait cancel() has ended starts no
\* provider call and no tool execution when it resumes, and leaves the state
\* idle.
C29_CancelledStartsNothing ==
  [][\A i \in Invs :
       CancelledInApproval(i) =>
         /\ inv'[i].pc \notin {"stream", "race"}
         /\ inv'[i] # inv[i] => state' = "idle"]_vars

\* no processMessage is in progress
NoneInProgress == \A i \in Invs : inv[i].pc \in {"none", "done"}

\* C30: once the approval of the pending tool call has been resolved by a
\* tool:approved or tool:denied event the slot is empty, and it is empty
\* whenever the loop is idle with no processMessage in progress.
C30_SlotClearedByResolution ==
  /\ \A i \in Invs :
       (inv[i].pc = "approval" /\ inv[i].approval \in {"approved", "denied"})
         => pendingApproval # CurId(Cur, i)
  /\ (state = "idle" /\ NoneInProgress) => pendingApproval = NoId

\* C31: a max-turns agent:error is published only by a step in which an
\* invocation returns from a tool call of its turn number maxTurns, that is
\* when every one of its maxTurns model calls returned a tool call; a message
\* that ends by a response without tool call, by a provider error or by a
\* cancellation publishes none.
C31_CeilingErrorOnlyAtCeiling ==
  ceilingErrors # {} => \E i \in Invs : hitCeiling(i)

\* the tool_use blocks, or the tool_result blocks, of a message
blocksOf(m, type) == SelectSeq(m.blocks, LAMBDA b : b.type = type)

\* w holds one tool_result for each tool_use of a, in order
answers(w, a) ==
  LET uses == blocksOf(a, "tool_use")
      results == blocksOf(w, "tool_result")
  IN  /\ a.role = "assistant"
      /\ w.role = "user"
      /\ Len(uses) = Len(results)
      /\ \A n \in 1..Len(uses) : uses[n].id = results[n].toolCallId

\* every wrapper of h comes right after the assistant message it answers and
\* every assistant message with tool_use blocks is followed by its wrapper
wellPaired(h) ==
  \A n \in 1..Len(h) :
    /\ blocksOf(h[n], "tool_result") # <<>> => n > 1 /\ answers(h[n], h[n - 1])
    /\ blocksOf(h[n], "tool_use") # <<>> => n < Len(h) /\ answers(h[n + 1], h[n])

\* C32: an accepted processMessage on a well paired history leaves a well
\* paired history, whatever trimContextIfNeeded removes: no tool_result
\* without its tool_use before it and no tool_use without its tool_result.
C32_TrimKeepsPairs ==
  [][(accepted' = accepted + 1 /\ wellPaired(history)) => wellPaired(history')]_vars

\* C33: nothing of a turn in flight is added after clearHistory(): a history
\* that is not empty starts with the plain-text user message of an accepted
\* processMessage, and the usage counters are zero while the history is empty.
C33_HistoryStartsWithUserText ==
  /\ history # <<>> => history[1].role = "user" /\ history[1].plain
  /\ history = <<>> => totalTokensIn = 0 /\ totalTokensOut = 0

\* the places of the tool_call_end events with the given id among the
\* events the adapter has yielded
endsOf(id) ==
  {n \in DOMAIN adapter.events :
     adapter.events[n].type = "tool_call_end" /\ adapter.events[n].id = id}

\* C34: in a generic-family stream no call id gets two tool_call_end events,
\* however many lines carry a finish marker, and no tool_call_end comes
\* after done.
C34_OneEndPerCall ==
  adapter.family = "generic" =>
    /\ \A n \in DOMAIN adapter.events :
         adapter.events[n].type = "tool_call_end" =>
           Cardinality(endsOf(adapter.events[n].id)) = 1
    /\ \A n, d \in DOMAIN adapter.events :
         (adapter.events[n].type = "tool_call_end"
            /\ adapter.events[d].type = "done") => n < d

\* the generic adapter at its first read of a body with the given lines
reading(text) ==
  [AdapterIdle EXCEPT !.family = "generic", !.apc = "read", !.text = text]

\* the events of the first n characters of the body delivered by one read
oneRead(text, n) ==
  readChunk(reading(text), SubSeq(encode(text), 1, n)).events

\* the body has been read to its end and done has been yielded
streamDone ==
  /\ adapter.family = "generic"
  /\ adapter.apc = "ended"
  /\ adapter.events # <<>>
  /\ adapter.events[Len(adapter.events)].type = "done"

\* C35: the events the generic adapter has yielded are those of the text read
\* so far delivered by a single read, wherever the reads were cut, and at the
\* end of the body those of the whole text in one read followed by done.
C35_EventsIndependentOfChunks ==
  /\ (adapter.family = "generic" /\ adapter.apc \in {"read", "thrown"}) =>
       adapter.events = oneRead(adapter.text, adapter.pos)
  /\ streamDone =>
       adapter.events =
         genericDone(readChunk(reading(adapter.text), encode(adapter.text))).events

\* a body with a text delta and a tool call has been read in pieces that
\* ended inside a line
C35_ReadInPieces ==
  /\ streamDone
  /\ adapter.midLine
  /\ adapter.text = <<"text", "start0", "argClose", "finish">>
  /\ Len(adapter.events) = 5

\* the lines of text that carry a JSON value
RECURSIVE jsonLines(_)
jsonLines(text) ==
  IF text = <<>> THEN <<>>
  ELSE (IF lineKind(Head(text)) = "json" THEN <<Head(text)>> ELSE <<>>)
       \o jsonLines(Tail(text))

\* the places of the done events
doneEvents == {n \in DOMAIN adapter.events : adapter.events[n].type = "done"}

\* C36: data lines that do not parse, lines that are no data lines and the
\* sentinel produce no event and do not end the stream: the events yielded
\* for the lines read so far are those of the same lines without them, and a
\* body read to its end yields exactly one done.
C36_SkippedLinesLeaveNoTrace ==
  /\ (adapter.family = "generic" /\ adapter.apc = "read") =>
       LET read == SubSeq(adapter.text, 1,
                          linesWithin(adapter.text, adapter.pos))
           kept == jsonLines(read)
       IN  adapter.events = oneRead(kept, Len(encode(kept)))
  /\ streamDone =>
       /\ Cardinality(doneEvents) = 1
       /\ LET kept == jsonLines(adapter.text)
          IN  adapter.events =
                genericDone(readChunk(reading(kept), encode(kept))).events

\* a body with a malformed line, a comment and the sentinel before a text
\* delta has been read to its end
C36_SkippedThenText ==
  /\ streamDone
  /\ adapter.text = <<"bad", "comment", "sentinel", "text">>
  /\ Len(adapter.events) = 2
  /\ adapter.events[1].type = "text_delta"

\* C37: a timeout timer is armed only while its executeTool call waits in the
\* race: when executeTool has returned, by the tool's result, by the tool's
\* exception or by the timeout, the timer it armed is no longer pending.
C37_TimerClearedOnReturn ==
  \A id \in timers : inv[id[1]].pc = "race" /\ CurId(Cur, id[1]) = id

\* C38: edit_file returns a result for every old_string and new_string that
\* are strings, the empty old_string included, and every file content: its
\* counting loop ends.
C38_EditFileReturns ==
  files.op = "edit_file" => files.pc \in {"returned", "writeFile", "rename",
                                         "copyFile", "unlink", "killed"}

\* the recursive permission and ownership changes at the root, lower-cased
RootChanges == {toLowerCase(ChmodRoot), toLowerCase(ChownRoot)}

\* C39: a bash call on 'chmod -R <mode> /' or 'chown -R <owner> /', written
\* in any letter case, has returned an isError result and has spawned no
\* subprocess.
C39_RootChangesBlocked ==
  (shell.op = "bash" /\ toLowerCase(shell.command) \in RootChanges) =>
    /\ shell.pc = "returned"
    /\ shell.out.isError
    /\ shell.spawned = 0

\* the number of entries of a tree down to the given depth, the content of
\* the skipped directories left out
RECURSIVE entriesOf(_, _)
RECURSIVE entriesOfAll(_, _)
entriesOfAll(dirs, depth) ==
  IF dirs = <<>> THEN 0
  ELSE entriesOf(Head(dirs), depth) + entriesOfAll(Tail(dirs), depth)

entriesOf(dir, depth) ==
  IF depth = 0 \/ dir.skip THEN 0
  ELSE dir.files + Len(dir.dirs) + entriesOfAll(dir.dirs, depth - 1)

\* C40: the output of list_directory has at most 500 entry lines, for one
\* directory with more entries than that and for recursive listings, and it
\* carries a truncation marker when entries were left out.
C40_ListingCapped ==
  sandbox.op = "list_directory" =>
    /\ sandbox.out.entries <= MaxEntries
    /\ sandbox.out.entries
         < entriesOf(sandbox.tree, IF sandbox.recursive THEN 3 ELSE 1)
         => sandbox.out.markers >= 1

====
